---- MODULE Spec2Model ----
(***************************************************************************)
(* SAR narrative generator (src/llm/pipeline.py, src/llm/templates.py).    *)
(* Texts are TLA+ strings; Python's str operations (lower, in, len,        *)
(* f-string interpolation) are modelled character by character.            *)
(***************************************************************************)
EXTENDS Integers, Sequences, FiniteSets, TLC

\* ------------------------------------------------------------------------
\* Bounds of the model
\* ------------------------------------------------------------------------
\* A transaction text is the concatenation of at most MaxFrags fragments.
MaxFrags == 2

\* ------------------------------------------------------------------------
\* State
\* ------------------------------------------------------------------------
VARIABLES
    \* -- a client calling calculate_risk_score repeatedly
    pc,                 \* "init" | "running" | "returned"
    transactions,       \* argument of the current (or last) call
    customer_name,      \* argument of the current (or last) call
    score,              \* local of calculate_risk_score; the returned score
    matched_typology,   \* local of calculate_risk_score; the returned typology
    probe,              \* the text whose repeated calls are compared
    probe_result,       \* what the first call on probe returned
    phase,              \* 0 probe not called, 1 called once, 2 another text
                        \* was classified since, 3 probe called again
    \* -- a client calling generate_sar
    sar_pc,             \* position in generate_sar
    sar,                \* the locals of generate_sar
    collection,         \* the "sar_templates" collection of chroma_client
    result,             \* the dict returned by the last generate_sar call
    raised,             \* the exception the last generate_sar call raised
    trace,              \* what happened in the call: retrieval and backend
                        \* outcome, the documents retrieved, the prompt sent
    \* -- POST /generate-sar (src/backend/main.py, src/backend/database.py)
    request,            \* the JSON body of the request: field name -> value
    ep_pc,              \* position in generate_sar_endpoint
    cases,              \* the rows of table cases, in insertion order
    audit_log,          \* the rows of table audit_log, in insertion order
    response,           \* the HTTP response sent to the caller
    \* -- threads calling retrieve_relevant_template at the same time
    callers             \* per caller: position and locals

classifier_vars ==
    <<pc, transactions, customer_name, score, matched_typology,
      probe, probe_result, phase>>

generator_vars == <<sar_pc, sar, collection, result, raised, trace>>

backend_vars == <<request, ep_pc, cases, audit_log, response>>

vars == <<classifier_vars, generator_vars, backend_vars, callers>>

\* What a call of generate_sar leaves alone, and what a call of
\* calculate_risk_score leaves alone.
outside_generator == <<classifier_vars, backend_vars, callers>>
outside_classifier == <<generator_vars, backend_vars, callers>>

\* ------------------------------------------------------------------------
\* Python str helpers
\* ------------------------------------------------------------------------
Min(a, b) == IF a < b THEN a ELSE b
Max(a, b) == IF a > b THEN a ELSE b

\* Python: sub in s
Contains(sub, s) ==
    \E i \in 0..(Len(s) - Len(sub)) : SubSeq(s, i + 1, i + Len(sub)) = sub

UpperLetters ==
    <<"A","B","C","D","E","F","G","H","I","J","K","L","M",
      "N","O","P","Q","R","S","T","U","V","W","X","Y","Z">>
LowerLetters ==
    <<"a","b","c","d","e","f","g","h","i","j","k","l","m",
      "n","o","p","q","r","s","t","u","v","w","x","y","z">>

LowerChar(c) ==
    IF \E k \in 1..26 : UpperLetters[k] = c
    THEN LowerLetters[CHOOSE k \in 1..26 : UpperLetters[k] = c]
    ELSE c

\* Python: s.lower() (ASCII texts)
RECURSIVE Lower(_)
Lower(s) ==
    IF Len(s) = 0 THEN ""
    ELSE IF Len(s) = 1 THEN LowerChar(s)
    ELSE LET h == Len(s) \div 2
         IN Lower(SubSeq(s, 1, h)) \o Lower(SubSeq(s, h + 1, Len(s)))

\* ------------------------------------------------------------------------
\* src/llm/templates.py
\* ------------------------------------------------------------------------
\* The five reference templates. Each "template" body is cut after its first
\* two lines: the pipeline handles a body as an opaque document.
SAR_TEMPLATES == <<
    [id |-> "tmpl_001", typology |-> "Money Laundering - Layering",
     title |-> "Multiple Account Aggregation then International Transfer",
     template |-> "\nSUBJECT INFORMATION:\nThe subject, [CUSTOMER NAME], holds account [ACCOUNT NO] opened [DATE].\n"],
    [id |-> "tmpl_002", typology |-> "Structuring / Smurfing",
     title |-> "Sub-threshold Cash Deposits to Avoid Reporting",
     template |-> "\nSUBJECT INFORMATION:\nThe subject, [CUSTOMER NAME], holds account [ACCOUNT NO].\n"],
    [id |-> "tmpl_003", typology |-> "Account Takeover Fraud",
     title |-> "Unauthorized Access Followed by Rapid Fund Transfer",
     template |-> "\nSUBJECT INFORMATION:\nThe subject account [ACCOUNT NO] belongs to [CUSTOMER NAME].\n"],
    [id |-> "tmpl_004", typology |-> "Trade-Based Money Laundering",
     title |-> "Over/Under Invoicing in Import-Export Transactions",
     template |-> "\nSUBJECT INFORMATION:\nThe subject, [COMPANY NAME], is a registered importer/exporter, \n"],
    [id |-> "tmpl_005", typology |-> "Terrorist Financing",
     title |-> "Small Transfers to High-Risk Jurisdiction",
     template |-> "\nSUBJECT INFORMATION:\nThe subject, [CUSTOMER NAME], account [ACCOUNT NO], \n"] >>

RISK_KEYWORDS ==
    [high_risk |-> <<
        "offshore", "shell company", "cash intensive", "structuring", "smurfing",
        "immediately transferred", "same day", "high risk jurisdiction", "fatf",
        "hawala", "cryptocurrency", "multiple accounts", "layering", "no business purpose",
        "beneficial owner unknown", "pep", "politically exposed", "sanctions" >>,
     medium_risk |-> <<
        "unusual pattern", "inconsistent", "new beneficiary", "first time",
        "cannot explain", "no salary", "bulk transfer", "round amount",
        "late night transaction", "multiple devices", "new location" >>,
     low_risk |-> <<
        "regular transaction", "known beneficiary", "salary credit",
        "utility payment", "small amount", "domestic transfer" >>]

\* A Python dict iterates in insertion order: a sequence of (key, value).
TYPOLOGY_PATTERNS == <<
    [typology |-> "Money Laundering - Layering", keywords |-> <<
        "multiple accounts", "international transfer", "same day", "layering",
        "offshore", "different sources", "immediately wired", "aggregation" >>],
    [typology |-> "Structuring / Smurfing", keywords |-> <<
        "below threshold", "cash deposits", "multiple deposits", "49000", "49,000",
        "sub-threshold", "structured", "avoid reporting", "fragmented" >>],
    [typology |-> "Account Takeover Fraud", keywords |-> <<
        "new device", "new location", "new beneficiary", "unauthorized",
        "unrecognized", "customer confirmed", "mule account", "credential" >>],
    [typology |-> "Trade-Based Money Laundering", keywords |-> <<
        "invoice", "import", "export", "customs", "trade", "discrepancy",
        "over-invoicing", "under-invoicing", "goods value" >>],
    [typology |-> "Terrorist Financing", keywords |-> <<
        "high risk country", "small transfers", "sanctioned", "fatf listed",
        "no business relationship", "frequent small", "monitored jurisdiction" >>] >>

\* ------------------------------------------------------------------------
\* src/llm/pipeline.py: Risk Scoring Engine
\* ------------------------------------------------------------------------
\* Python: kw.lower() in text_lower
Matches(kw, text_lower) == Contains(Lower(kw), text_lower)

\* Variant: the weight is added for every occurrence of a keyword
\* (text_lower.count(kw) times) instead of once.
RECURSIVE AddLoopPerOccurrence(_, _, _, _, _)
AddLoopPerOccurrence(kws, text_lower, weight, sc, i) ==
    IF i > Len(kws) THEN sc
    ELSE LET kw == Lower(kws[i])
             occurrences ==
                {j \in 1..(Len(text_lower) - Len(kw) + 1) :
                    SubSeq(text_lower, j, j + Len(kw) - 1) = kw}
         IN  AddLoopPerOccurrence(kws, text_lower, weight,
                 sc + weight * Cardinality(occurrences), i + 1)

\* for kw in kws: if kw.lower() in text_lower: score += weight
RECURSIVE AddLoop(_, _, _, _, _)
AddLoop(kws, text_lower, weight, sc, i) ==
    IF i > Len(kws) THEN sc
    ELSE AddLoop(kws, text_lower, weight,
                 IF Matches(kws[i], text_lower) THEN sc + weight ELSE sc, i + 1)

\* Variant: a low-risk keyword raises the score by 2.
RECURSIVE SubLoopAdds(_, _, _, _)
SubLoopAdds(kws, text_lower, sc, i) ==
    IF i > Len(kws) THEN sc
    ELSE SubLoopAdds(kws, text_lower,
                     IF Matches(kws[i], text_lower) THEN sc + 2 ELSE sc, i + 1)

\* for kw in kws: if kw.lower() in text_lower: score = max(0, score - 2)
RECURSIVE SubLoop(_, _, _, _)
SubLoop(kws, text_lower, sc, i) ==
    IF i > Len(kws) THEN sc
    ELSE SubLoop(kws, text_lower,
                 IF Matches(kws[i], text_lower) THEN Max(0, sc - 2) ELSE sc, i + 1)

\* match_count = sum(1 for kw in keywords if kw.lower() in text_lower)
MatchCount(keywords, text_lower) ==
    Cardinality({k \in 1..Len(keywords) : Matches(keywords[k], text_lower)})

\* Variant: the loop keeps a matched keyword instead of the dictionary key.
RECURSIVE DetectTypologyKeyword(_, _, _, _)
DetectTypologyKeyword(text_lower, best_match_count, matched, i) ==
    IF i > Len(TYPOLOGY_PATTERNS) THEN matched
    ELSE LET match_count == MatchCount(TYPOLOGY_PATTERNS[i].keywords, text_lower)
         IN IF match_count > best_match_count
            THEN DetectTypologyKeyword(text_lower, match_count,
                                       TYPOLOGY_PATTERNS[i].keywords[1], i + 1)
            ELSE DetectTypologyKeyword(text_lower, best_match_count, matched, i + 1)

\* Variant: the comparison is >=, so the last typology with the largest
\* count wins.
RECURSIVE DetectTypologyLastWins(_, _, _, _)
DetectTypologyLastWins(text_lower, best_match_count, matched, i) ==
    IF i > Len(TYPOLOGY_PATTERNS) THEN matched
    ELSE LET match_count == MatchCount(TYPOLOGY_PATTERNS[i].keywords, text_lower)
         IN IF match_count >= best_match_count
            THEN DetectTypologyLastWins(text_lower, match_count,
                                        TYPOLOGY_PATTERNS[i].typology, i + 1)
            ELSE DetectTypologyLastWins(text_lower, best_match_count, matched, i + 1)

\* for typology, keywords in TYPOLOGY_PATTERNS.items(): keep the strict maximum
RECURSIVE DetectTypology(_, _, _, _)
DetectTypology(text_lower, best_match_count, matched, i) ==
    IF i > Len(TYPOLOGY_PATTERNS) THEN matched
    ELSE LET match_count == MatchCount(TYPOLOGY_PATTERNS[i].keywords, text_lower)
         IN IF match_count > best_match_count
            THEN DetectTypology(text_lower, match_count,
                                TYPOLOGY_PATTERNS[i].typology, i + 1)
            ELSE DetectTypology(text_lower, best_match_count, matched, i + 1)

GENERAL_TYPOLOGY == "General Suspicious Activity"

\* Variant: the cap is missing.
CapScoreMissing(sc) == sc

\* score = min(score, 100)
CapScore(sc) == Min(sc, 100)

\* Variant: the floor is missing.
FloorScoreMissing(sc) == sc

\* Variant: the floor is applied only when the score is not zero.
FloorScoreIfMatched(sc) == IF sc > 0 THEN Max(sc, 30) ELSE sc

\* score = max(score, 30)
FloorScore(sc) == Max(sc, 30)

\* The body of calculate_risk_score after the initialisation of its locals
\* (score, matched_typology); returns <<score, matched_typology>>.
RiskScoreBody(txt, sc0, matched0) ==
    LET text_lower == Lower(txt)
        s1 == AddLoop(RISK_KEYWORDS.high_risk, text_lower, 8, sc0, 1)
        s2 == AddLoop(RISK_KEYWORDS.medium_risk, text_lower, 4, s1, 1)
        s3 == SubLoop(RISK_KEYWORDS.low_risk, text_lower, s2, 1)
        s4 == CapScore(s3)
        ty == DetectTypology(text_lower, 0, matched0, 1)
    IN  <<FloorScore(s4), ty>>

\* Variant: score is a module-level accumulator that is not reset per call.
StaleScore == score

\* score = 0
InitialScore == 0

\* calculate_risk_score(transactions, customer_name) -> (score, typology)
calculate_risk_score(txt, name) ==
    RiskScoreBody(txt, InitialScore, GENERAL_TYPOLOGY)


\* ------------------------------------------------------------------------
\* src/llm/pipeline.py: SAR Generation Prompt
\* ------------------------------------------------------------------------
\* SAR_PROMPT_TEMPLATE, cut at its six placeholders {reference_templates},
\* {customer_name}, {account_number}, {typology}, {risk_score}, {transactions}.
SAR_PROMPT_TEMPLATE == <<
    "You are a senior AML (Anti-Money Laundering) compliance officer at a major bank.\n" \o
    "Your task is to write a formal, regulator-ready Suspicious Activity Report (SAR) narrative.\n" \o
    "\n" \o
    "REFERENCE TEMPLATES (use these as style guides):\n",
    "\n" \o
    "\n" \o
    "---\n" \o
    "\n" \o
    "NOW GENERATE A SAR FOR THIS CASE:\n" \o
    "\n" \o
    "CUSTOMER NAME: ",
    "\n" \o
    "ACCOUNT NUMBER: ",
    "\n" \o
    "DETECTED TYPOLOGY: ",
    "\n" \o
    "RISK SCORE: ",
    "/100\n" \o
    "\n" \o
    "TRANSACTION DETAILS:\n",
    "\n" \o
    "\n" \o
    "---\n" \o
    "\n" \o
    "Write a complete, professional SAR narrative with EXACTLY these sections:\n" \o
    "\n" \o
    "## 1. SUBJECT INFORMATION\n" \o
    "[Full details about the customer and their normal account profile]\n" \o
    "\n" \o
    "## 2. TRANSACTION SUMMARY  \n" \o
    "[Precise summary of suspicious transactions with dates, amounts, and parties involved]\n" \o
    "\n" \o
    "## 3. SUSPICIOUS ACTIVITY DESCRIPTION\n" \o
    "[Detailed narrative explaining exactly what happened and why it is suspicious]\n" \o
    "\n" \o
    "## 4. TYPOLOGY MATCH\n" \o
    "[Map this activity to a known financial crime typology with explanation]\n" \o
    "\n" \o
    "## 5. RED FLAGS IDENTIFIED\n" \o
    "[Numbered list of specific red flags observed in this case]\n" \o
    "\n" \o
    "## 6. ANALYST RECOMMENDATION\n" \o
    "[Recommended next steps: file SAR / escalate / request documents / freeze account]\n" \o
    "\n" \o
    "## 7. AUDIT RATIONALE\n" \o
    "[Explain which specific data points influenced this narrative and why]\n" \o
    "\n" \o
    "Write in formal regulatory language. Be specific, factual, and unambiguous.\n" \o
    "Do NOT include any disclaimers or meta-commentary. Write only the SAR narrative.\n" >>

\* SAR_PROMPT.format(...): the placeholders are replaced by the values; the
\* values are not scanned for placeholders again.
SAR_PROMPT(reference_templates, name, account, typ, risk, txt) ==
    SAR_PROMPT_TEMPLATE[1] \o reference_templates \o
    SAR_PROMPT_TEMPLATE[2] \o name \o
    SAR_PROMPT_TEMPLATE[3] \o account \o
    SAR_PROMPT_TEMPLATE[4] \o typ \o
    SAR_PROMPT_TEMPLATE[5] \o ToString(risk) \o
    SAR_PROMPT_TEMPLATE[6] \o txt \o
    SAR_PROMPT_TEMPLATE[7]

\* ------------------------------------------------------------------------
\* src/llm/pipeline.py: generate_fallback_sar
\* ------------------------------------------------------------------------
\* The f-string of generate_fallback_sar, cut at {customer_name},
\* {account_number}, {transactions}, {typology}, {typology}, {risk_score}.
FALLBACK_SAR_TEMPLATE == <<
    "## 1. SUBJECT INFORMATION\n" \o
    "Customer Name: ",
    "\n" \o
    "Account Number: ",
    "\n" \o
    "This SAR has been raised based on automated pattern analysis of account activity.\n" \o
    "The customer's transaction behaviour has deviated significantly from their established profile.\n" \o
    "\n" \o
    "## 2. TRANSACTION SUMMARY\n" \o
    "The following suspicious transactions have been identified:\n",
    "\n" \o
    "\n" \o
    "## 3. SUSPICIOUS ACTIVITY DESCRIPTION\n" \o
    "Analysis of the account activity reveals patterns inconsistent with the customer's \n" \o
    "known financial profile and stated purpose of account. The transaction pattern \n" \o
    "suggests deliberate structuring or layering of funds inconsistent with legitimate \n" \o
    "business or personal activity. The velocity, volume, and nature of transactions \n" \o
    "observed over the reporting period raise significant concerns.\n" \o
    "\n" \o
    "## 4. TYPOLOGY MATCH\n" \o
    "Detected Typology: ",
    "\n" \o
    "This activity aligns with FATF-recognized money laundering/fraud typologies \n" \o
    "involving layering of funds through multiple transactions to obscure the origin \n" \o
    "of funds and evade detection thresholds.\n" \o
    "\n" \o
    "## 5. RED FLAGS IDENTIFIED\n" \o
    "1. Transaction pattern inconsistent with customer profile\n" \o
    "2. Unusual velocity of transactions detected\n" \o
    "3. Transaction amounts and counterparties raise AML concerns\n" \o
    "4. No apparent legitimate business purpose identified\n" \o
    "5. Pattern matches known financial crime typology: ",
    "\n" \o
    "\n" \o
    "## 6. ANALYST RECOMMENDATION\n" \o
    "RECOMMENDED ACTION: File Suspicious Activity Report immediately.\n" \o
    "- Escalate to Senior AML Officer for review\n" \o
    "- Place account under enhanced monitoring\n" \o
    "- Request source of funds documentation from customer\n" \o
    "- Cross-reference counterparties against sanctions and PEP lists\n" \o
    "- Consider account restriction pending investigation\n" \o
    "\n" \o
    "## 7. AUDIT RATIONALE\n" \o
    "Risk Score: ",
    "/100\n" \o
    "This narrative was generated based on automated transaction pattern analysis.\n" \o
    "Key data points: transaction frequency, amount patterns, counterparty diversity,\n" \o
    "and geographic risk factors. All source data is preserved in the audit log.\n" \o
    "NOTE: This is a system-generated draft. Human analyst review and approval required before filing.\n" >>

generate_fallback_sar(name, account, txt, typ, risk) ==
    FALLBACK_SAR_TEMPLATE[1] \o name \o
    FALLBACK_SAR_TEMPLATE[2] \o account \o
    FALLBACK_SAR_TEMPLATE[3] \o txt \o
    FALLBACK_SAR_TEMPLATE[4] \o typ \o
    FALLBACK_SAR_TEMPLATE[5] \o typ \o
    FALLBACK_SAR_TEMPLATE[6] \o ToString(risk) \o
    FALLBACK_SAR_TEMPLATE[7]

\* ------------------------------------------------------------------------
\* Section headings of a narrative
\* ------------------------------------------------------------------------
Char(s, i) == SubSeq(s, i, i)

\* Positions at which a line of s starts with the markdown heading mark.
HeadingStarts(s) ==
    {i \in 1..Len(s) :
        /\ i = 1 \/ Char(s, i - 1) = "\n"
        /\ i + 2 <= Len(s)
        /\ SubSeq(s, i, i + 2) = "## "}

\* Position of the last character of the line that starts at i (its newline
\* excluded).
LineEnd(s, i) ==
    LET nls == {j \in i..Len(s) : Char(s, j) = "\n"}
    IN  IF nls = {} THEN Len(s)
        ELSE (CHOOSE j \in nls : \A k \in nls : j <= k) - 1

\* s without its trailing blanks.
RECURSIVE RStrip(_)
RStrip(s) ==
    IF Len(s) > 0 /\ Char(s, Len(s)) \in {" ", "\t", "\r"}
    THEN RStrip(SubSeq(s, 1, Len(s) - 1))
    ELSE s

\* The text of the heading line that starts at i, without mark and blanks.
HeadingAt(s, i) == RStrip(SubSeq(s, i + 3, LineEnd(s, i)))

RECURSIVE HeadingsFrom(_, _)
HeadingsFrom(s, starts) ==
    IF starts = {} THEN <<>>
    ELSE LET i == CHOOSE j \in starts : \A k \in starts : j <= k
         IN  <<HeadingAt(s, i)>> \o HeadingsFrom(s, starts \ {i})

\* The section headings of s, in their order in s.
Headings(s) == HeadingsFrom(s, HeadingStarts(s))

\* ------------------------------------------------------------------------
\* json.dumps(audit_data, indent=2) and json.loads
\* ------------------------------------------------------------------------
QUOTE == "\""
BACKSLASH == "\\"

\* Variant: a line break is written as a blank instead of being escaped.
EscapeCharFlattensNewline(c) ==
    IF c = QUOTE THEN BACKSLASH \o QUOTE
    ELSE IF c = BACKSLASH THEN BACKSLASH \o BACKSLASH
    ELSE IF c = "\n" THEN " "
    ELSE IF c = "\r" THEN BACKSLASH \o "r"
    ELSE IF c = "\t" THEN BACKSLASH \o "t"
    ELSE c

\* One character of a Python str as json.dumps writes it inside a string.
EscapeChar(c) ==
    IF c = QUOTE THEN BACKSLASH \o QUOTE
    ELSE IF c = BACKSLASH THEN BACKSLASH \o BACKSLASH
    ELSE IF c = "\n" THEN BACKSLASH \o "n"
    ELSE IF c = "\r" THEN BACKSLASH \o "r"
    ELSE IF c = "\t" THEN BACKSLASH \o "t"
    ELSE c

RECURSIVE Escape(_)
Escape(s) ==
    IF Len(s) = 0 THEN ""
    ELSE IF Len(s) = 1 THEN EscapeChar(s)
    ELSE LET h == Len(s) \div 2
         IN Escape(SubSeq(s, 1, h)) \o Escape(SubSeq(s, h + 1, Len(s)))

JsonStr(s) == QUOTE \o Escape(s) \o QUOTE

RECURSIVE Indent(_)
Indent(level) == IF level = 0 THEN "" ELSE "  " \o Indent(level - 1)

\* The items of a list of str, one per line, separated by commas.
RECURSIVE JsonItems(_, _, _)
JsonItems(xs, i, level) ==
    Indent(level) \o JsonStr(xs[i]) \o
    (IF i = Len(xs) THEN "\n" ELSE ",\n" \o JsonItems(xs, i + 1, level))

JsonList(xs, level) ==
    IF xs = <<>> THEN "[]"
    ELSE "[\n" \o JsonItems(xs, 1, level + 1) \o Indent(level) \o "]"

\* The keys of audit_data in insertion order, with the Python type of the
\* value (json.dumps dispatches on it).
AUDIT_FIELDS == <<
    <<"risk_score", "int">>,
    <<"typology_detected", "str">>,
    <<"rag_templates_used", "list">>,
    <<"transaction_length", "int">>,
    <<"model_used", "str">>,
    <<"prompt_template", "str">>,
    <<"processing_steps", "list">> >>

JsonValue(v, kind, level) ==
    IF kind = "int" THEN ToString(v)
    ELSE IF kind = "str" THEN JsonStr(v)
    ELSE JsonList(v, level)

RECURSIVE JsonMembers(_, _, _)
JsonMembers(d, i, level) ==
    Indent(level) \o JsonStr(AUDIT_FIELDS[i][1]) \o ": " \o
    JsonValue(d[AUDIT_FIELDS[i][1]], AUDIT_FIELDS[i][2], level) \o
    (IF i = Len(AUDIT_FIELDS) THEN "\n" ELSE ",\n" \o JsonMembers(d, i + 1, level))

\* json.dumps(audit_data, indent=2)
JsonDumps(d) == "{\n" \o JsonMembers(d, 1, 1) \o "}"

\* --- json.loads: objects, arrays, strings and integers
JsonBlank == {" ", "\n", "\r", "\t"}
Digits == <<"0", "1", "2", "3", "4", "5", "6", "7", "8", "9">>
IsDigit(c) == \E d \in 1..10 : Digits[d] = c
DigitValue(c) == (CHOOSE d \in 1..10 : Digits[d] = c) - 1

RECURSIVE SkipBlank(_, _)
SkipBlank(s, i) ==
    IF i <= Len(s) /\ Char(s, i) \in JsonBlank THEN SkipBlank(s, i + 1) ELSE i

\* Number of consecutive backslashes of s that end right before position j,
\* counted no further back than position lo.
RECURSIVE BackslashRun(_, _, _)
BackslashRun(s, lo, j) ==
    IF j - 1 >= lo /\ Char(s, j - 1) = BACKSLASH
    THEN 1 + BackslashRun(s, lo, j - 1)
    ELSE 0

\* First position in lo..hi of a quote that is not escaped within the string
\* body that starts at position body; 0 if there is none.
RECURSIVE FirstQuote(_, _, _, _)
FirstQuote(s, body, lo, hi) ==
    IF lo > hi THEN 0
    ELSE IF lo = hi
    THEN (IF Char(s, lo) = QUOTE /\ BackslashRun(s, body, lo) % 2 = 0
          THEN lo ELSE 0)
    ELSE LET mid == (lo + hi) \div 2
             left == FirstQuote(s, body, lo, mid)
         IN  IF left # 0 THEN left ELSE FirstQuote(s, body, mid + 1, hi)

\* Position of the quote that closes the string opened at position i.
ClosingQuote(s, i) == FirstQuote(s, i + 1, i + 1, Len(s))

UnescapeChar(c) ==
    IF c = "n" THEN "\n"
    ELSE IF c = "r" THEN "\r"
    ELSE IF c = "t" THEN "\t"
    ELSE c

\* What position p of the raw string body contributes to the decoded str.
DecodedAt(raw, p) ==
    LET intro(q) == Char(raw, q) = BACKSLASH /\ BackslashRun(raw, 1, q) % 2 = 0
    IN  IF intro(p) THEN ""
        ELSE IF p > 1 /\ intro(p - 1) THEN UnescapeChar(Char(raw, p))
        ELSE Char(raw, p)

RECURSIVE DecodeRange(_, _, _)
DecodeRange(raw, lo, hi) ==
    IF lo > hi THEN ""
    ELSE IF lo = hi THEN DecodedAt(raw, lo)
    ELSE LET mid == (lo + hi) \div 2
         IN  DecodeRange(raw, lo, mid) \o DecodeRange(raw, mid + 1, hi)

Unescape(raw) ==
    IF Contains(BACKSLASH, raw) THEN DecodeRange(raw, 1, Len(raw)) ELSE raw

ParseString(s, i) ==
    LET close == ClosingQuote(s, i)
    IN  [val |-> Unescape(SubSeq(s, i + 1, close - 1)), kind |-> "str",
         next |-> close + 1]

RECURSIVE ParseDigits(_, _, _)
ParseDigits(s, i, acc) ==
    IF i <= Len(s) /\ IsDigit(Char(s, i))
    THEN ParseDigits(s, i + 1, 10 * acc + DigitValue(Char(s, i)))
    ELSE [val |-> acc, kind |-> "int", next |-> i]

ParseNumber(s, i) ==
    IF Char(s, i) = "-"
    THEN LET r == ParseDigits(s, i + 1, 0)
         IN  [val |-> 0 - r.val, kind |-> "int", next |-> r.next]
    ELSE ParseDigits(s, i, 0)

\* The mapping of an object from its members <<key, value, kind>>; a repeated
\* key keeps its last value.
LastMember(members, k) ==
    members[CHOOSE n \in 1..Len(members) :
                /\ members[n][1] = k
                /\ \A m \in (n + 1)..Len(members) : members[m][1] # k]

ObjectOf(members) ==
    [k \in {members[n][1] : n \in 1..Len(members)} |-> LastMember(members, k)[2]]

\* The JSON type of each member of an object.
KindsOf(members) ==
    [k \in {members[n][1] : n \in 1..Len(members)} |-> LastMember(members, k)[3]]

RECURSIVE ParseValue(_, _)
RECURSIVE ParseElements(_, _, _)
RECURSIVE ParseMembers(_, _, _)

ParseElements(s, i, acc) ==
    LET v == ParseValue(s, i)
        k == SkipBlank(s, v.next)
    IN  IF Char(s, k) = ","
        THEN ParseElements(s, SkipBlank(s, k + 1), Append(acc, v.val))
        ELSE [val |-> Append(acc, v.val), kind |-> "list", next |-> k + 1]

\* The members <<key, value, kind>> of the object whose first key starts at i.
ParseMembers(s, i, acc) ==
    LET key == ParseString(s, i)
        colon == SkipBlank(s, key.next)
        v == ParseValue(s, SkipBlank(s, colon + 1))
        k == SkipBlank(s, v.next)
    IN  IF Char(s, k) = ","
        THEN ParseMembers(s, SkipBlank(s, k + 1),
                          Append(acc, <<key.val, v.val, v.kind>>))
        ELSE [val |-> Append(acc, <<key.val, v.val, v.kind>>), next |-> k + 1]

ParseValue(s, i) ==
    LET c == Char(s, i)
        j == SkipBlank(s, i + 1)
    IN  IF c = QUOTE THEN ParseString(s, i)
        ELSE IF c = "[" THEN
            (IF Char(s, j) = "]" THEN [val |-> <<>>, kind |-> "list", next |-> j + 1]
             ELSE ParseElements(s, j, <<>>))
        ELSE IF c = "{" THEN
            (IF Char(s, j) = "}" THEN [val |-> <<>>, kind |-> "dict", next |-> j + 1]
             ELSE LET m == ParseMembers(s, j, <<>>)
                  IN  [val |-> ObjectOf(m.val), kind |-> "dict", next |-> m.next])
        ELSE IF c = "n" THEN [val |-> "None", kind |-> "null", next |-> i + 4]
        ELSE ParseNumber(s, i)

\* The JSON types of the members of the object that the text s holds.
JsonKinds(s) ==
    LET open == SkipBlank(s, 1)
        first == SkipBlank(s, open + 1)
    IN  IF Char(s, first) = "}" THEN <<>>
        ELSE KindsOf(ParseMembers(s, first, <<>>).val)

\* json.loads(text)
JsonLoads(s) == ParseValue(s, SkipBlank(s, 1)).val

\* ------------------------------------------------------------------------
\* Inputs of the classifier
\* ------------------------------------------------------------------------
\* Pieces of transaction text: no keyword; one high-risk keyword in upper
\* case; all six low-risk keywords; three medium-risk and five high-risk
\* keywords (two typologies match twice); thirteen high-risk keywords
\* (8 * 13 > 100); a structuring description.
Fragments == <<
    "Paid rent to landlord. ",
    "Customer is a PEP. ",
    "Salary credit, utility payment, small amount, regular transaction, known beneficiary, domestic transfer. ",
    "New Beneficiary added from a new location, first time; funds immediately transferred the same day to an offshore shell company with no business purpose. ",
    "pep fatf hawala offshore smurfing same day layering sanctions structuring cryptocurrency shell company cash intensive multiple accounts ",
    "9 cash deposits of 49,000 each, below threshold, structured to avoid reporting. " >>

RECURSIVE Concat(_)
Concat(fs) == IF fs = <<>> THEN "" ELSE Fragments[Head(fs)] \o Concat(Tail(fs))

FragSeqs == UNION {[1..n -> 1..Len(Fragments)] : n \in 0..MaxFrags}

Texts == {Concat(fs) : fs \in FragSeqs}

Probes == {""} \cup {Fragments[i] : i \in 1..Len(Fragments)}

CustomerNames == {"Rajesh Kumar", "ACME Exports Ltd"}

\* ------------------------------------------------------------------------
\* Inputs and environment of generate_sar
\* ------------------------------------------------------------------------
\* Transaction texts: the empty text, a structuring description, and a text
\* that carries a markdown heading line of its own.
SarTexts == {
    "",
    "9 cash deposits of 49,000 each, below threshold, structured to avoid reporting. ",
    "Prior report on this account:\n## 4. TYPOLOGY MATCH\nlayering via offshore shell company" }

AccountNumbers == {"N/A"}

\* Completions the generation backend may return.
LLMOutputs == {
    "## 1. SUBJECT INFORMATION\n...\n## 2. TRANSACTION SUMMARY\n...\n## 3. SUSPICIOUS ACTIVITY DESCRIPTION\n...\n## 4. TYPOLOGY MATCH\n...\n## 5. RED FLAGS IDENTIFIED\n...\n## 6. ANALYST RECOMMENDATION\n...\n## 7. AUDIT RATIONALE\n...\n",
    "The account shows structuring of cash deposits." }

\* Exceptions raised by chromadb (client, collection, embedding function).
RetrievalErrors == {
    [type |-> "ValueError",
     msg |-> "Could not connect to tenant default_tenant. Are you sure it exists?"],
    [type |-> "OperationalError", msg |-> "database is locked"] }

\* Exception raised while the Ollama client object is constructed.
ClientErrors == {
    [type |-> "ValidationError", msg |-> "1 validation error for Ollama"] }

\* Exceptions raised by chain.invoke: backend offline, timeout after 120 s,
\* error answer of the backend.
InvokeErrors == {
    [type |-> "ConnectionError",
     msg |-> "HTTPConnectionPool(host='localhost', port=11434): Max retries exceeded"],
    [type |-> "ReadTimeout",
     msg |-> "HTTPConnectionPool(host='localhost', port=11434): Read timed out. (read timeout=120)"],
    [type |-> "ValueError",
     msg |-> "Ollama call failed with status code 500. Details: {\"error\":\"model \\\"llama3.1:8b\\\" not found\"}\n"] }

\* The classes among these that derive from Exception (all of them).
ExceptionSubclasses ==
    {"ValueError", "OperationalError", "ValidationError", "ConnectionError",
     "ReadTimeout"}

NoException == [type |-> "", msg |-> ""]

\* ------------------------------------------------------------------------
\* src/llm/pipeline.py: retrieval
\* ------------------------------------------------------------------------
NoCollection == [exists |-> FALSE, ids |-> <<>>]

\* collection.add for every template of SAR_TEMPLATES, in order
FullCollection == [exists |-> TRUE, ids |-> [i \in 1..Len(SAR_TEMPLATES) |-> i]]

\* n_results of retrieve_relevant_template (default argument)
N_RESULTS == 2

\* The possible answers of collection.query for a call with n_results = k:
\* min(k, len(SAR_TEMPLATES)) distinct documents of the collection (fewer if
\* it holds fewer), in the order of their distance to the query text.
QueryAnswersFor(coll, k) ==
    LET n == Min(Min(k, Len(SAR_TEMPLATES)), Len(coll.ids))
        loaded == {coll.ids[j] : j \in 1..Len(coll.ids)}
    IN  {docs \in [1..n -> loaded] :
            \A a, b \in 1..n : a # b => docs[a] # docs[b]}

\* The possible answers of collection.query in a call of generate_sar, which
\* leaves n_results at its default.
QueryAnswers(coll) == QueryAnswersFor(coll, N_RESULTS)

\* templates_text += f"\n\n--- REFERENCE TEMPLATE ({meta['typology']}) ---\n{doc}"
RECURSIVE TemplatesText(_, _)
TemplatesText(docs, i) ==
    IF i > Len(docs) THEN ""
    ELSE "\n\n--- REFERENCE TEMPLATE (" \o SAR_TEMPLATES[docs[i]].typology \o
         ") ---\n" \o SAR_TEMPLATES[docs[i]].template \o TemplatesText(docs, i + 1)

\* Variant: the handler of retrieve_relevant_template catches ValueError only.
RetrievalCatchesValueErrorOnly(e) == e.type = "ValueError"

\* except Exception as e: (retrieve_relevant_template)
RetrievalHandlerCatches(e) == e.type \in ExceptionSubclasses

\* return SAR_TEMPLATES[0]["template"]
RetrievalFallback == SAR_TEMPLATES[1].template

\* ------------------------------------------------------------------------
\* src/llm/pipeline.py: generate_sar
\* ------------------------------------------------------------------------
MODEL_USED == "llama3.1:8b (local)"

PROCESSING_STEPS == <<
    "1. Risk keywords scanned and scored",
    "2. Typology pattern matched",
    "3. ChromaDB queried for relevant SAR templates",
    "4. LangChain prompt assembled with context",
    "5. Ollama LLM generated narrative",
    "6. Narrative stored with full audit trail" >>

\* Variant: risk_score and transaction_length are swapped in audit_data.
AuditDataSwapped(risk, typ, txt) ==
    [risk_score |-> Len(txt),
     typology_detected |-> typ,
     rag_templates_used |->
        [k \in 1..Min(2, Len(SAR_TEMPLATES)) |-> SAR_TEMPLATES[k].typology],
     transaction_length |-> risk,
     model_used |-> MODEL_USED,
     prompt_template |-> "SAR_PROMPT_V1",
     processing_steps |-> PROCESSING_STEPS]

\* Variant: audit_data is built with an empty list of processing steps.
AuditDataNoSteps(risk, typ, txt) ==
    [risk_score |-> risk,
     typology_detected |-> typ,
     rag_templates_used |->
        [k \in 1..Min(2, Len(SAR_TEMPLATES)) |-> SAR_TEMPLATES[k].typology],
     transaction_length |-> Len(txt),
     model_used |-> MODEL_USED,
     prompt_template |-> "SAR_PROMPT_V1",
     processing_steps |-> <<>>]

\* audit_data = {...} (Step 3)
AuditData(risk, typ, txt) ==
    [risk_score |-> risk,
     typology_detected |-> typ,
     rag_templates_used |->
        [k \in 1..Min(2, Len(SAR_TEMPLATES)) |-> SAR_TEMPLATES[k].typology],
     transaction_length |-> Len(txt),
     model_used |-> MODEL_USED,
     prompt_template |-> "SAR_PROMPT_V1",
     processing_steps |-> PROCESSING_STEPS]

\* f"NOTE: LLM unavailable, fallback template used. Error: {str(e)}"
FallbackNote(e) ==
    "NOTE: LLM unavailable, fallback template used. Error: " \o e.msg

\* Variant: the handler of Step 4 catches ConnectionError only.
CatchesConnectionErrorOnly(e) == e.type = "ConnectionError"

\* except Exception as e: (generate_sar)
GenerationHandlerCatches(e) == e.type \in ExceptionSubclasses

NoAudit ==
    [risk_score |-> 0, typology_detected |-> "", rag_templates_used |-> <<>>,
     transaction_length |-> 0, model_used |-> "", prompt_template |-> "",
     processing_steps |-> <<>>]

IdleSar ==
    [transactions |-> "", customer_name |-> "", account_number |-> "",
     risk_score |-> 0, typology |-> "", reference_templates |-> "",
     audit_data |-> NoAudit, narrative |-> ""]

NoReturn ==
    [returned |-> FALSE, narrative |-> "", risk_score |-> 0, typology |-> "",
     audit_data |-> ""]

\* invocations counts the chain.invoke calls of the current generate_sar call.
NoTrace ==
    [retrieval |-> "none", backend |-> "none", docs |-> <<>>, prompt |-> "",
     invocations |-> 0]

\* Entry of generate_sar(transactions, customer_name, account_number).
GenerateSar(t, n, a) ==
    /\ sar_pc \in {"idle", "returned", "raised"}
    /\ sar' = [IdleSar EXCEPT !.transactions = t, !.customer_name = n,
                              !.account_number = a]
    /\ sar_pc' = "score"
    /\ result' = NoReturn
    /\ raised' = NoException
    /\ trace' = NoTrace
    /\ UNCHANGED collection
    /\ UNCHANGED outside_generator

\* Step 1: risk scoring.
RiskScoring ==
    /\ sar_pc = "score"
    /\ LET r == calculate_risk_score(sar.transactions, sar.customer_name)
       IN  sar' = [sar EXCEPT !.risk_score = r[1], !.typology = r[2]]
    /\ sar_pc' = "retrieve"
    /\ UNCHANGED <<collection, result, raised, trace>>
    /\ UNCHANGED outside_generator

\* The except branch of retrieve_relevant_template for exception e: the
\* first template is returned; an exception the handler does not catch
\* leaves generate_sar.
RetrievalExcept(e) ==
    IF RetrievalHandlerCatches(e)
    THEN /\ sar' = [sar EXCEPT !.reference_templates = RetrievalFallback]
         /\ sar_pc' = "audit"
         /\ raised' = raised
    ELSE /\ sar' = sar
         /\ sar_pc' = "raised"
         /\ raised' = e

\* Step 2, get_or_create_collection: the collection exists and is returned,
\* or it is created and all templates are loaded.
GetOrCreateCollection ==
    /\ sar_pc = "retrieve"
    /\ collection' = IF collection.exists THEN collection ELSE FullCollection
    /\ sar_pc' = "query"
    /\ UNCHANGED <<sar, result, raised, trace>>
    /\ UNCHANGED outside_generator

\* Step 2, get_or_create_collection raises e: get_collection and
\* create_collection both fail (k = -1, no collection is created), or the
\* collection is created and collection.add fails after k templates.
GetOrCreateRaises(e, k) ==
    /\ sar_pc = "retrieve"
    /\ k >= 0 => ~collection.exists
    /\ collection' = IF k >= 0 THEN [exists |-> TRUE, ids |-> [i \in 1..k |-> i]]
                     ELSE collection
    /\ RetrievalExcept(e)
    /\ trace' = [trace EXCEPT !.retrieval = "failed"]
    /\ UNCHANGED result
    /\ UNCHANGED outside_generator

\* Step 2, collection.query answers with docs; templates_text is returned.
QueryAnswered(docs) ==
    /\ sar_pc = "query"
    /\ docs \in QueryAnswers(collection)
    /\ sar' = [sar EXCEPT !.reference_templates = TemplatesText(docs, 1)]
    /\ sar_pc' = "audit"
    /\ trace' = [trace EXCEPT !.retrieval = "ok", !.docs = docs]
    /\ UNCHANGED <<collection, result, raised>>
    /\ UNCHANGED outside_generator

\* Step 2, collection.query raises e.
QueryRaises(e) ==
    /\ sar_pc = "query"
    /\ RetrievalExcept(e)
    /\ trace' = [trace EXCEPT !.retrieval = "failed"]
    /\ UNCHANGED <<collection, result>>
    /\ UNCHANGED outside_generator

\* Step 3: the audit trail is built.
BuildAudit ==
    /\ sar_pc = "audit"
    /\ sar' = [sar EXCEPT !.audit_data =
                  AuditData(sar.risk_score, sar.typology, sar.transactions)]
    /\ sar_pc' = "llm"
    /\ UNCHANGED <<collection, result, raised, trace>>
    /\ UNCHANGED outside_generator

\* The prompt chain.invoke sends to the backend.
PromptOf(l) ==
    SAR_PROMPT(l.reference_templates, l.customer_name, l.account_number,
               l.typology, l.risk_score, l.transactions)

\* A Step 4 whose handler calls the backend a second time after the first
\* failure before it falls back.
GenerationExceptRetries(e) ==
    IF GenerationHandlerCatches(e)
    THEN IF sar_pc = "llm" /\ trace.invocations = 0
         THEN /\ sar' = sar
              /\ sar_pc' = "llm"
              /\ raised' = raised
         ELSE /\ sar' = [sar EXCEPT
                     !.narrative = generate_fallback_sar(sar.customer_name,
                                       sar.account_number, sar.transactions,
                                       sar.typology, sar.risk_score),
                     !.audit_data.processing_steps = Append(@, FallbackNote(e))]
              /\ sar_pc' = "return"
              /\ raised' = raised
    ELSE /\ sar' = sar
         /\ sar_pc' = "raised"
         /\ raised' = e

\* The except branch of Step 4 for exception e: the fallback narrative is
\* built and the note is appended to processing_steps; an exception the
\* handler does not catch leaves generate_sar.
GenerationExcept(e) ==
    IF GenerationHandlerCatches(e)
    THEN /\ sar' = [sar EXCEPT
                !.narrative = generate_fallback_sar(sar.customer_name,
                                  sar.account_number, sar.transactions,
                                  sar.typology, sar.risk_score),
                !.audit_data.processing_steps = Append(@, FallbackNote(e))]
         /\ sar_pc' = "return"
         /\ raised' = raised
    ELSE /\ sar' = sar
         /\ sar_pc' = "raised"
         /\ raised' = e

\* Step 4, get_llm() raises e.
GetLlmRaises(e) ==
    /\ sar_pc = "llm"
    /\ GenerationExcept(e)
    /\ trace' = [trace EXCEPT !.backend = "no client"]
    /\ UNCHANGED <<collection, result>>
    /\ UNCHANGED outside_generator

\* Step 4, chain.invoke returns the completion out.
InvokeReturns(out) ==
    /\ sar_pc = "llm"
    /\ sar' = [sar EXCEPT !.narrative = out]
    /\ sar_pc' = "return"
    /\ trace' = [trace EXCEPT !.backend = "ok", !.prompt = PromptOf(sar),
                               !.invocations = @ + 1]
    /\ UNCHANGED <<collection, result, raised>>
    /\ UNCHANGED outside_generator

\* Step 4, chain.invoke raises e (backend offline, error or timeout).
InvokeRaises(e) ==
    /\ sar_pc = "llm"
    /\ GenerationExcept(e)
    /\ trace' = [trace EXCEPT !.backend = "failed", !.prompt = PromptOf(sar),
                               !.invocations = @ + 1]
    /\ UNCHANGED <<collection, result>>
    /\ UNCHANGED outside_generator

\* return {"narrative": ..., "audit_data": json.dumps(audit_data, indent=2)}
ReturnSar ==
    /\ sar_pc = "return"
    /\ result' = [returned |-> TRUE,
                  narrative |-> sar.narrative,
                  risk_score |-> sar.risk_score,
                  typology |-> sar.typology,
                  audit_data |-> JsonDumps(sar.audit_data)]
    /\ sar_pc' = "returned"
    /\ UNCHANGED <<sar, collection, raised, trace>>
    /\ UNCHANGED outside_generator

\* No request was received: the tables are empty and nothing was answered.
NoRequest ==
    [customer_name |-> "", account_number |-> "", transactions |-> "",
     analyst_name |-> ""]

NoResponse == [status_code |-> 0, detail |-> "", success |-> FALSE]

BackendIdle ==
    /\ request = NoRequest
    /\ ep_pc = "idle"
    /\ cases = <<>>
    /\ audit_log = <<>>
    /\ response = NoResponse

\* No thread is inside retrieve_relevant_template.
CallersIdle == callers = <<>>

GeneratorIdle ==
    /\ sar_pc = "idle"
    /\ sar = IdleSar
    /\ collection = NoCollection
    /\ result = NoReturn
    /\ raised = NoException
    /\ trace = NoTrace

ClassifierIdle ==
    /\ pc = "init"
    /\ transactions = ""
    /\ customer_name = ""
    /\ score = 0
    /\ matched_typology = ""
    /\ probe = ""
    /\ probe_result = [seen |-> FALSE, customer_name |-> "", risk_score |-> 0,
                       typology |-> ""]
    /\ phase = 0

\* ------------------------------------------------------------------------
\* Specification Spec: a client calling generate_sar again and again; the
\* chroma collection is persistent and may exist from an earlier run.
\* ------------------------------------------------------------------------
Init ==
    /\ ClassifierIdle
    /\ sar_pc = "idle"
    /\ sar = IdleSar
    /\ collection \in {NoCollection, FullCollection}
    /\ result = NoReturn
    /\ raised = NoException
    /\ trace = NoTrace
    /\ BackendIdle
    /\ CallersIdle

Next ==
    \/ \E t \in SarTexts, n \in CustomerNames, a \in AccountNumbers :
            GenerateSar(t, n, a)
    \/ RiskScoring
    \/ GetOrCreateCollection
    \/ \E e \in RetrievalErrors, k \in -1..(Len(SAR_TEMPLATES) - 1) :
            GetOrCreateRaises(e, k)
    \/ \E docs \in QueryAnswers(collection) : QueryAnswered(docs)
    \/ \E e \in RetrievalErrors : QueryRaises(e)
    \/ BuildAudit
    \/ \E e \in ClientErrors : GetLlmRaises(e)
    \/ \E out \in LLMOutputs : InvokeReturns(out)
    \/ \E e \in InvokeErrors : InvokeRaises(e)
    \/ ReturnSar

Spec == Init /\ [][Next]_vars

\* ------------------------------------------------------------------------
\* Calls of calculate_risk_score
\* ------------------------------------------------------------------------
NoResult == [seen |-> FALSE, customer_name |-> "", risk_score |-> 0, typology |-> ""]

\* Entry of calculate_risk_score: the locals are initialised.
CallClassifier(t, n) ==
    /\ pc \in {"init", "returned"}
    /\ pc' = "running"
    /\ transactions' = t
    /\ customer_name' = n
    /\ score' = InitialScore
    /\ matched_typology' = GENERAL_TYPOLOGY
    /\ UNCHANGED <<probe, probe_result, phase>>
    /\ UNCHANGED outside_classifier

\* The loops, the cap, the typology detection, the floor, and the return.
ReturnClassifier ==
    /\ pc = "running"
    /\ pc' = "returned"
    /\ LET r == RiskScoreBody(transactions, score, matched_typology)
       IN  /\ score' = r[1]
           /\ matched_typology' = r[2]
           /\ IF transactions = probe
              THEN /\ probe_result' =
                        IF probe_result.seen THEN probe_result
                        ELSE [seen |-> TRUE, customer_name |-> customer_name,
                              risk_score |-> r[1], typology |-> r[2]]
                   /\ phase' = IF phase = 0 THEN 1
                               ELSE IF phase = 2 THEN 3 ELSE phase
              ELSE /\ probe_result' = probe_result
                   /\ phase' = IF phase = 1 THEN 2 ELSE phase
    /\ UNCHANGED <<transactions, customer_name, probe>>
    /\ UNCHANGED outside_classifier

\* ------------------------------------------------------------------------
\* Specification SpecClassify: one call of calculate_risk_score on each
\* input text
\* ------------------------------------------------------------------------
InitClassify ==
    /\ pc = "init"
    /\ transactions \in Texts
    /\ customer_name \in CustomerNames
    /\ score = 0
    /\ matched_typology = ""
    /\ probe = transactions
    /\ probe_result = NoResult
    /\ phase = 0
    /\ GeneratorIdle
    /\ BackendIdle
    /\ CallersIdle

NextClassify ==
    \/ (pc = "init" /\ CallClassifier(transactions, customer_name))
    \/ ReturnClassifier

SpecClassify == InitClassify /\ [][NextClassify]_vars

\* ------------------------------------------------------------------------
\* Specification SpecRepeat: a client that calls calculate_risk_score again
\* and again, with texts and customer names in any order
\* ------------------------------------------------------------------------
InitRepeat ==
    /\ pc = "init"
    /\ transactions = ""
    /\ customer_name = ""
    /\ score = 0
    /\ matched_typology = ""
    /\ probe \in Probes
    /\ probe_result = NoResult
    /\ phase = 0
    /\ GeneratorIdle
    /\ BackendIdle
    /\ CallersIdle

NextRepeat ==
    \/ \E t \in Probes, n \in CustomerNames : CallClassifier(t, n)
    \/ ReturnClassifier

SpecRepeat == InitRepeat /\ [][NextRepeat]_vars

\* ------------------------------------------------------------------------
\* Properties of calculate_risk_score
\* ------------------------------------------------------------------------
\* The keywords of the list that occur in the lower-cased text.
HitsIn(keywords, text_lower) ==
    {k \in 1..Len(keywords) : Contains(keywords[k], text_lower)}

HighRiskHits(txt) == HitsIn(RISK_KEYWORDS.high_risk, Lower(txt))
MediumRiskHits(txt) == HitsIn(RISK_KEYWORDS.medium_risk, Lower(txt))
LowRiskHits(txt) == HitsIn(RISK_KEYWORDS.low_risk, Lower(txt))

\* C5: whatever keywords the text matches, the returned risk score is an
\* integer between 0 and 100.
C5_ScoreInRange ==
    pc = "returned" => score \in 0..100

\* A text whose keyword weights add up to more than 100 was scored.
C5_Witness ==
    /\ pc = "returned"
    /\ 8 * Cardinality(HighRiskHits(transactions)) > 100
    /\ score = 100

\* C6: a text that contains at least one high-risk keyword gets a score of at
\* least 30, however many low-risk keywords it also contains.
C6_HighRiskFloor ==
    (pc = "returned" /\ HighRiskHits(transactions) # {}) => score >= 30

\* A text with one high-risk and six low-risk keywords (8 - 12 < 30) was scored.
C6_Witness ==
    /\ pc = "returned"
    /\ Cardinality(HighRiskHits(transactions)) = 1
    /\ MediumRiskHits(transactions) = {}
    /\ Cardinality(LowRiskHits(transactions)) = 6
    /\ score = 30

\* C7: the returned typology is a key of TYPOLOGY_PATTERNS or the generic
\* label; never empty, never another string.
C7_TypologyEnumerated ==
    pc = "returned" =>
        matched_typology \in
            {TYPOLOGY_PATTERNS[i].typology : i \in 1..Len(TYPOLOGY_PATTERNS)}
            \cup {"General Suspicious Activity"}

\* A text that matches typology keywords was classified with a specific label.
C7_Witness ==
    /\ pc = "returned"
    /\ matched_typology = "Structuring / Smurfing"

\* C8: a call on the probe text returns what the first call on that text
\* returned, whatever was classified in between and whatever customer name
\* is passed.
C8_Deterministic ==
    (pc = "returned" /\ transactions = probe /\ probe_result.seen) =>
        /\ score = probe_result.risk_score
        /\ matched_typology = probe_result.typology

\* The probe text was classified, then another text, then the probe text
\* again under a different customer name.
C8_Witness ==
    /\ pc = "returned"
    /\ phase = 3
    /\ transactions = probe
    /\ customer_name # probe_result.customer_name

\* ------------------------------------------------------------------------
\* Properties of generate_sar
\* ------------------------------------------------------------------------
\* The backend did not produce the narrative of the finished call.
BackendFailed == trace.backend \in {"no client", "failed"}

\* C1: whatever the outcome of retrieval and of the generation backend
\* (failure to construct the client included), generate_sar raises no
\* exception, and a finished call has returned its result bundle.
C1_NeverRaises ==
    /\ sar_pc # "raised"
    /\ raised = NoException
    /\ sar_pc = "returned" =>
          /\ result.returned
          /\ DOMAIN result =
                {"returned", "narrative", "risk_score", "typology", "audit_data"}

\* A call returned although retrieval raised and the backend client could
\* not be constructed.
C1_Witness ==
    /\ sar_pc = "returned"
    /\ trace.retrieval = "failed"
    /\ trace.backend = "no client"
    /\ result.returned

\* The seven section headings the prompt requires.
SECTION_HEADINGS == <<
    "1. SUBJECT INFORMATION", "2. TRANSACTION SUMMARY",
    "3. SUSPICIOUS ACTIVITY DESCRIPTION", "4. TYPOLOGY MATCH",
    "5. RED FLAGS IDENTIFIED", "6. ANALYST RECOMMENDATION",
    "7. AUDIT RATIONALE" >>

\* C2: when the backend fails, the returned narrative has exactly the seven
\* section headings the prompt requires, each once and in that order, for
\* every customer name, account number and transaction text.
C2_FallbackHeadings ==
    (sar_pc = "returned" /\ BackendFailed) =>
        /\ Headings(result.narrative) = SECTION_HEADINGS
        /\ Headings(PromptOf(IdleSar)) = SECTION_HEADINGS

\* C3: the risk_score and typology of a returned result equal the risk_score
\* and typology_detected of its deserialized audit_data, on the normal and
\* on the fallback path.
C3_NoDrift ==
    sar_pc = "returned" =>
        LET audit == JsonLoads(result.audit_data)
        IN  /\ result.risk_score = audit.risk_score
            /\ result.typology = audit.typology_detected

\* A fallback run returned a result with a specific typology.
C3_Witness ==
    /\ sar_pc = "returned"
    /\ BackendFailed
    /\ result.typology = "Structuring / Smurfing"
    /\ JsonLoads(result.audit_data).typology_detected = "Structuring / Smurfing"

\* C4: the deserialized audit payload of every returned result has non-null
\* risk_score, typology_detected and generation backend (key model_used)
\* and a non-empty list of processing_steps.
C4_AuditComplete ==
    sar_pc = "returned" =>
        LET audit == JsonLoads(result.audit_data)
            kinds == JsonKinds(result.audit_data)
        IN  /\ {"risk_score", "typology_detected", "model_used",
                "processing_steps"} \subseteq DOMAIN audit
            /\ kinds.risk_score = "int"
            /\ kinds.typology_detected = "str"
            /\ kinds.model_used = "str"
            /\ kinds.processing_steps = "list"
            /\ Len(audit.processing_steps) > 0

\* A result was returned by a run whose backend answered, with all six steps.
C4_Witness ==
    /\ sar_pc = "returned"
    /\ trace.backend = "ok"
    /\ Len(JsonLoads(result.audit_data).processing_steps) = 6

C10_BackendIdentifier ==
    (sar_pc = "returned" /\ BackendFailed) =>
        /\ result.returned
        /\ JsonLoads(result.audit_data).model_used # "llama3.1:8b (local)"

\* ------------------------------------------------------------------------
\* POST /generate-sar (src/backend/main.py) and the tables it writes
\* (src/backend/database.py).  Timestamps are left out of the rows.
\* ------------------------------------------------------------------------
\* class CaseInput(BaseModel): the fields without a default.
REQUIRED_FIELDS ==
    {"customer_name", "account_number", "transactions", "analyst_name"}

\* The request bodies tried: complete, with additional context, with an
\* empty customer name, with an empty transaction text, with both empty,
\* and with the customer name or the transaction text missing.
Requests ==
    LET complete ==
            [customer_name |-> "Rajesh Kumar", account_number |-> "ACC-1001",
             transactions |->
                "9 cash deposits of 49,000 each, below threshold.",
             analyst_name |-> "Priya"]
    IN  { complete,
          [complete EXCEPT !.transactions = "Paid rent to landlord."]
              @@ [additional_context |-> "Customer is a PEP."],
          [complete EXCEPT !.customer_name = ""],
          [complete EXCEPT !.transactions = ""],
          [complete EXCEPT !.customer_name = "", !.transactions = ""],
          [f \in REQUIRED_FIELDS \ {"customer_name"} |-> complete[f]],
          [f \in REQUIRED_FIELDS \ {"transactions"} |-> complete[f]] }

\* What engine.connect / conn.execute / conn.commit raise when sqlite fails.
DbErrors == {[type |-> "OperationalError", msg |-> "database is locked"]}

\* The value of a column no statement has written (SQL NULL).
NULL == "NULL"

\* The value str(datetime.datetime.now()) writes into approved_at; the
\* created_at and timestamp columns are left out of the rows.
TIMESTAMP == "datetime.now()"

\* A case and its audit entry stored by an earlier request.
EarlierCases ==
    << [id |-> 1, customer_name |-> "ACME Exports Ltd",
        account_number |-> "ACC-0007", transactions |-> "wire to offshore",
        sar_narrative |-> "earlier narrative", status |-> "DRAFT",
        analyst_name |-> "Priya", risk_score |-> 30,
        typology |-> "General Suspicious Activity",
        approved_at |-> NULL, approved_by |-> NULL,
        edited_narrative |-> NULL] >>

EarlierAudit ==
    << [id |-> 1, case_id |-> 1, action |-> "SAR_GENERATED",
        analyst |-> "Priya",
        detail |-> "SAR generated. Risk Score: 30/100. Typology: General Suspicious Activity",
        data_used |-> "{}"] >>

\* FastAPI validates the body against CaseInput before the handler runs.
ValidCaseInput(body) == REQUIRED_FIELDS \subseteq DOMAIN body

\* additional_context: Optional[str] = ""
AdditionalContext(body) ==
    IF "additional_context" \in DOMAIN body THEN body.additional_context
    ELSE ""

\* full_transaction_text
FullTransactionText(body) ==
    IF AdditionalContext(body) # ""
    THEN body.transactions \o "\n\nADDITIONAL CONTEXT:\n"
            \o AdditionalContext(body)
    ELSE body.transactions

\* The bodies for which the handler goes on to call generate_sar.
EndpointAccepts(body) == ValidCaseInput(body)

\* except Exception as e: raise HTTPException(status_code=500, ...)
GenerationFailed(e) ==
    [status_code |-> 500, detail |-> "SAR generation failed: " \o e.msg,
     success |-> FALSE]

\* The request is received: a body that is not a CaseInput is answered with
\* 422; otherwise the handler starts and is about to call generate_sar.
GenerateSarEndpoint ==
    /\ ep_pc = "received"
    /\ IF EndpointAccepts(request)
       THEN /\ ep_pc' = "call"
            /\ response' = response
       ELSE /\ ep_pc' = "responded"
            /\ response' = [status_code |-> 422,
                            detail |-> "field required", success |-> FALSE]
    /\ UNCHANGED <<request, cases, audit_log>>
    /\ UNCHANGED <<classifier_vars, generator_vars, callers>>

\* result = generate_sar(transactions=full_transaction_text, ...)
EndpointCallsGenerateSar ==
    /\ ep_pc = "call"
    /\ sar_pc = "idle"
    /\ GenerateSar(FullTransactionText(request), request.customer_name,
                   request.account_number)

\* save_case(...): the row is inserted and committed; an exception of
\* generate_sar arrives in the handler's except branch instead.
SaveCase ==
    /\ ep_pc = "call"
    /\ sar_pc \in {"returned", "raised"}
    /\ IF sar_pc = "raised"
       THEN /\ cases' = cases
            /\ ep_pc' = "responded"
            /\ response' = GenerationFailed(raised)
       ELSE /\ cases' = Append(cases,
                    [id |-> Len(cases) + 1,
                     customer_name |-> request.customer_name,
                     account_number |-> request.account_number,
                     transactions |-> FullTransactionText(request),
                     sar_narrative |-> result.narrative,
                     status |-> "DRAFT",
                     analyst_name |-> request.analyst_name,
                     risk_score |-> result.risk_score,
                     typology |-> result.typology,
                     approved_at |-> NULL, approved_by |-> NULL,
                     edited_narrative |-> NULL])
            /\ ep_pc' = "saved"
            /\ response' = response
    /\ UNCHANGED <<request, audit_log>>
    /\ UNCHANGED <<classifier_vars, generator_vars, callers>>

\* save_case raises e: nothing is inserted, the caller gets 500.
SaveCaseRaises(e) ==
    /\ ep_pc = "call"
    /\ sar_pc = "returned"
    /\ ep_pc' = "responded"
    /\ response' = GenerationFailed(e)
    /\ UNCHANGED <<request, cases, audit_log>>
    /\ UNCHANGED <<classifier_vars, generator_vars, callers>>

\* An audit table whose insert replaces the entry the case already has for
\* the same action (INSERT OR REPLACE keyed by case and action).
save_audit_replaces(log, case_id, action, analyst, detail, data_used) ==
    LET row == [id |-> Len(log) + 1, case_id |-> case_id, action |-> action,
                analyst |-> analyst, detail |-> detail,
                data_used |-> data_used]
        kept == SelectSeq(log, LAMBDA r :
                    ~(r.case_id = case_id /\ r.action = action))
    IN  Append(kept, row)

\* save_audit: INSERT INTO audit_log; the table after the insert into log.
save_audit(log, case_id, action, analyst, detail, data_used) ==
    Append(log, [id |-> Len(log) + 1, case_id |-> case_id, action |-> action,
                 analyst |-> analyst, detail |-> detail,
                 data_used |-> data_used])

\* save_audit(case_id, "SAR_GENERATED", ...) and the return of the handler.
SaveAudit ==
    /\ ep_pc = "saved"
    /\ audit_log' = save_audit(audit_log, Len(cases), "SAR_GENERATED",
            request.analyst_name,
            "SAR generated. Risk Score: "
                \o ToString(result.risk_score) \o "/100. Typology: "
                \o result.typology,
            result.audit_data)
    /\ ep_pc' = "responded"
    /\ response' = [status_code |-> 200, detail |-> "", success |-> TRUE,
                    case_id |-> Len(cases),
                    sar_narrative |-> result.narrative,
                    risk_score |-> result.risk_score,
                    typology |-> result.typology,
                    audit_summary |-> JsonLoads(result.audit_data)]
    /\ UNCHANGED <<request, cases>>
    /\ UNCHANGED <<classifier_vars, generator_vars, callers>>

\* save_audit raises e: the case row is already committed, the caller
\* gets 500.
SaveAuditRaises(e) ==
    /\ ep_pc = "saved"
    /\ ep_pc' = "responded"
    /\ response' = GenerationFailed(e)
    /\ UNCHANGED <<request, cases, audit_log>>
    /\ UNCHANGED <<classifier_vars, generator_vars, callers>>

\* ------------------------------------------------------------------------
\* Specification SpecApi: one POST /generate-sar request, on empty tables or
\* after an earlier case
\* ------------------------------------------------------------------------
InitApi ==
    /\ ClassifierIdle
    /\ sar_pc = "idle"
    /\ sar = IdleSar
    /\ collection \in {NoCollection, FullCollection}
    /\ result = NoReturn
    /\ raised = NoException
    /\ trace = NoTrace
    /\ request \in Requests
    /\ ep_pc = "received"
    /\ \/ cases = <<>> /\ audit_log = <<>>
       \/ cases = EarlierCases /\ audit_log = EarlierAudit
    /\ response = NoResponse
    /\ CallersIdle

NextApi ==
    \/ GenerateSarEndpoint
    \/ EndpointCallsGenerateSar
    \/ RiskScoring
    \/ GetOrCreateCollection
    \/ \E e \in RetrievalErrors, k \in -1..(Len(SAR_TEMPLATES) - 1) :
            GetOrCreateRaises(e, k)
    \/ \E docs \in QueryAnswers(collection) : QueryAnswered(docs)
    \/ \E e \in RetrievalErrors : QueryRaises(e)
    \/ BuildAudit
    \/ \E e \in ClientErrors : GetLlmRaises(e)
    \/ \E out \in LLMOutputs : InvokeReturns(out)
    \/ \E e \in InvokeErrors : InvokeRaises(e)
    \/ ReturnSar
    \/ SaveCase
    \/ \E e \in DbErrors : SaveCaseRaises(e)
    \/ SaveAudit
    \/ \E e \in DbErrors : SaveAuditRaises(e)

SpecApi == InitApi /\ [][NextApi]_vars

\* ------------------------------------------------------------------------
\* Properties of POST /generate-sar
\* ------------------------------------------------------------------------
\* The customer name or the transaction text of the body is empty or missing.
InvalidInput(body) ==
    \/ "customer_name" \notin DOMAIN body
    \/ "transactions" \notin DOMAIN body
    \/ body.customer_name = ""
    \/ body.transactions = ""

\* The caller got a failure because a table could not be written.
StorageFailed ==
    response \in {GenerationFailed(e) : e \in DbErrors}

\* C11: a request whose customer name or transaction text is empty or
\* missing is answered with a failure, with no narrative, and no case or
\* audit row is stored for it; a request with both present does not fail
\* (a failure to write the tables aside).
C11_InvalidInputFails ==
    ep_pc = "responded" =>
        /\ InvalidInput(request) =>
              /\ response.status_code # 200
              /\ ~response.success
              /\ "sar_narrative" \notin DOMAIN response
              /\ cases \in {<<>>, EarlierCases}
              /\ audit_log \in {<<>>, EarlierAudit}
        /\ (response.status_code # 200 /\ ~StorageFailed) =>
              InvalidInput(request)

\* ------------------------------------------------------------------------
\* Threads calling retrieve_relevant_template(transaction_text, n_results):
\* the statements of get_or_create_collection and of the query, one step
\* each, on the collection the threads share.
\* ------------------------------------------------------------------------
\* Largest n_results tried in direct calls.
MaxResults == 6

\* Number of threads that call at the same time.
NumCallers == 2

\* What a caller of retrieve_relevant_template leaves alone.
outside_callers ==
    <<classifier_vars, backend_vars, sar_pc, sar, result, raised, trace>>

IdleCaller ==
    [pc |-> "idle", transaction_text |-> "", n_results |-> 0,
     built |-> FALSE, i |-> 0, templates_text |-> "", fallback |-> FALSE,
     exc |-> NoException]

\* retrieve_relevant_template(t, k) is entered by caller p.
CallRetrieve(p, t, k) ==
    /\ callers[p].pc = "idle"
    /\ callers' = [callers EXCEPT ![p] =
            [@ EXCEPT !.pc = "get", !.transaction_text = t, !.n_results = k]]
    /\ UNCHANGED collection
    /\ UNCHANGED outside_callers

\* The except branch of retrieve_relevant_template in caller p.
CallerExcept(p, e) ==
    callers' = [callers EXCEPT ![p] =
        IF RetrievalHandlerCatches(e)
        THEN [@ EXCEPT !.pc = "done", !.fallback = TRUE,
                       !.templates_text = RetrievalFallback]
        ELSE [@ EXCEPT !.pc = "raised", !.exc = e]]

\* The exception create_collection raises for a name that is taken.
AlreadyExists ==
    [type |-> "ValueError", msg |-> "Collection sar_templates already exists"]

\* collection = chroma_client.get_collection("sar_templates"); when the
\* collection does not exist the call raises and the except branch starts.
CallerGetCollection(p) ==
    /\ callers[p].pc = "get"
    /\ callers' = [callers EXCEPT ![p].pc =
            IF collection.exists THEN "query" ELSE "create"]
    /\ UNCHANGED collection
    /\ UNCHANGED outside_callers

\* collection = chroma_client.create_collection(name="sar_templates", ...);
\* it raises when the collection was created since get_collection failed.
CallerCreateCollection(p) ==
    /\ callers[p].pc = "create"
    /\ IF collection.exists
       THEN /\ CallerExcept(p, AlreadyExists)
            /\ UNCHANGED collection
       ELSE /\ collection' = [exists |-> TRUE, ids |-> <<>>]
            /\ callers' = [callers EXCEPT ![p] =
                    [@ EXCEPT !.pc = "add", !.built = TRUE, !.i = 1]]
    /\ UNCHANGED outside_callers

\* One iteration of "for tmpl in SAR_TEMPLATES: collection.add(...)"; after
\* the last one get_or_create_collection returns.
CallerAdd(p) ==
    /\ callers[p].pc = "add"
    /\ collection' = [collection EXCEPT !.ids = Append(@, callers[p].i)]
    /\ callers' = [callers EXCEPT ![p] =
            [@ EXCEPT !.i = @ + 1,
                      !.pc = IF callers[p].i = Len(SAR_TEMPLATES)
                             THEN "query" ELSE "add"]]
    /\ UNCHANGED outside_callers

\* collection.query answers with docs; templates_text is returned.
CallerQuery(p, docs) ==
    /\ callers[p].pc = "query"
    /\ docs \in QueryAnswersFor(collection, callers[p].n_results)
    /\ callers' = [callers EXCEPT ![p] =
            [@ EXCEPT !.pc = "done", !.templates_text = TemplatesText(docs, 1)]]
    /\ UNCHANGED collection
    /\ UNCHANGED outside_callers

\* collection.add or collection.query raises e in caller p.
CallerRaises(p, e) ==
    /\ callers[p].pc \in {"add", "query"}
    /\ CallerExcept(p, e)
    /\ UNCHANGED collection
    /\ UNCHANGED outside_callers

\* ------------------------------------------------------------------------
\* Specification SpecRetrieve: one direct call of
\* retrieve_relevant_template(text, k), on a fresh or a loaded collection
\* ------------------------------------------------------------------------
InitRetrieve ==
    /\ ClassifierIdle
    /\ BackendIdle
    /\ sar_pc = "idle"
    /\ sar = IdleSar
    /\ result = NoReturn
    /\ raised = NoException
    /\ trace = NoTrace
    /\ collection \in {NoCollection, FullCollection}
    /\ callers = <<IdleCaller>>

NextRetrieve ==
    \/ \E t \in SarTexts, k \in 0..MaxResults : CallRetrieve(1, t, k)
    \/ CallerGetCollection(1)
    \/ CallerCreateCollection(1)
    \/ CallerAdd(1)
    \/ \E docs \in QueryAnswersFor(collection, callers[1].n_results) :
            CallerQuery(1, docs)
    \/ \E e \in RetrievalErrors : CallerRaises(1, e)

SpecRetrieve == InitRetrieve /\ [][NextRetrieve]_vars

\* ------------------------------------------------------------------------
\* Properties of retrieve_relevant_template
\* ------------------------------------------------------------------------
\* The templates of SAR_TEMPLATES whose content is part of the text s.
TemplatesIn(s) ==
    {j \in 1..Len(SAR_TEMPLATES) : Contains(SAR_TEMPLATES[j].template, s)}

\* C12: whatever text and k >= 0 it is called with, and also when it falls
\* back after an error, retrieve_relevant_template returns the content of at
\* most k templates.
C12_AtMostK ==
    \A p \in DOMAIN callers :
        callers[p].pc = "done" =>
            Cardinality(TemplatesIn(callers[p].templates_text))
                <= callers[p].n_results

\* ------------------------------------------------------------------------
\* Specification SpecConcurrent: NumCallers threads inside generate_sar reach
\* Step 2 (retrieve_relevant_template with the default n_results) at the
\* same time, on a fresh or a loaded collection.  chromadb itself does not
\* fail here: every exception is one the interleaving causes.
\* ------------------------------------------------------------------------
InitConcurrent ==
    /\ ClassifierIdle
    /\ BackendIdle
    /\ sar_pc = "idle"
    /\ sar = IdleSar
    /\ result = NoReturn
    /\ raised = NoException
    /\ trace = NoTrace
    /\ collection \in {NoCollection, FullCollection}
    /\ callers = [p \in 1..NumCallers |-> IdleCaller]

\* The transaction texts of the concurrent invocations.
ConcurrentTexts ==
    {"", "9 cash deposits of 49,000 each, below threshold, structured to avoid reporting. "}

NextConcurrent ==
    \E p \in 1..NumCallers :
        \/ \E t \in ConcurrentTexts : CallRetrieve(p, t, N_RESULTS)
        \/ CallerGetCollection(p)
        \/ CallerCreateCollection(p)
        \/ CallerAdd(p)
        \/ \E docs \in QueryAnswersFor(collection, callers[p].n_results) :
                CallerQuery(p, docs)

SpecConcurrent == InitConcurrent /\ [][NextConcurrent]_vars

\* ------------------------------------------------------------------------
\* Properties of concurrent first use
\* ------------------------------------------------------------------------
\* The callers that ran the step that loads SAR_TEMPLATES.
Builders == {p \in DOMAIN callers : callers[p].built}

\* The collection holds the id of every template exactly once.
EachTemplateOnce ==
    /\ Len(collection.ids) = Len(SAR_TEMPLATES)
    /\ {collection.ids[j] : j \in 1..Len(collection.ids)}
            = 1..Len(SAR_TEMPLATES)

\* C13: however concurrent first-use calls interleave, at most one caller
\* loads SAR_TEMPLATES, every other caller gets its answer from the built
\* collection, and once a call has finished the collection holds each
\* template id exactly once.
C13_SingleBuild ==
    /\ Cardinality(Builders) <= 1
    /\ \A p \in DOMAIN callers :
          callers[p].pc \in {"done", "raised"} =>
              /\ callers[p].pc = "done"
              /\ ~callers[p].fallback
              /\ EachTemplateOnce

\* The reference context an invocation of generate_sar can get from Step 2
\* when it runs alone with n_results = k: it builds the collection if there
\* is none and gets the answer of a query on all templates.
AloneReferences(k) ==
    {TemplatesText(docs, 1) : docs \in QueryAnswersFor(FullCollection, k)}

\* C16: the reference context Step 2 hands to an invocation of generate_sar
\* that runs concurrently with others (and with it the prompt and the
\* result of that invocation) is one the invocation can get when it runs
\* alone on the same input; it does not depend on the other invocations or
\* on the interleaving with the first-use build.
C16_Isolation ==
    \A p \in DOMAIN callers :
        callers[p].pc \in {"done", "raised"} =>
            /\ callers[p].pc = "done"
            /\ callers[p].templates_text \in AloneReferences(callers[p].n_results)

\* ------------------------------------------------------------------------
\* Properties of the audit record
\* ------------------------------------------------------------------------
\* C14: on the normal and on the fallback path, json.loads of the returned
\* audit_data text gives back the audit record that json.dumps serialized:
\* the same keys, with equal values.
C14_RoundTrip ==
    sar_pc = "returned" =>
        /\ JsonLoads(result.audit_data) = sar.audit_data
        /\ DOMAIN JsonLoads(result.audit_data) = DOMAIN AuditData(0, "", "")

\* A fallback run returned an audit record whose note holds an error message
\* with quotes, backslashes and a line break, all escaped in the text.
C14_Witness ==
    /\ sar_pc = "returned"
    /\ BackendFailed
    /\ \E e \in InvokeErrors :
          /\ Contains(QUOTE, e.msg)
          /\ Contains("\n", e.msg)
          /\ sar.audit_data.processing_steps[Len(sar.audit_data.processing_steps)]
                = FallbackNote(e)
    /\ Contains(BACKSLASH \o "n", result.audit_data)
    /\ JsonLoads(result.audit_data) = sar.audit_data

\* The typology labels of the templates Step 2 handed to the call as
\* reference context: those of the documents the query answered with, in
\* that order, or that of the first template when retrieval fell back.
TypologiesRetrieved ==
    IF trace.retrieval = "failed" THEN <<SAR_TEMPLATES[1].typology>>
    ELSE [k \in 1..Len(trace.docs) |-> SAR_TEMPLATES[trace.docs[k]].typology]

\* C15: rag_templates_used of the audit record of a returned call lists, in
\* order, the typology labels of the templates retrieval returned as
\* context for that call; after a retrieval fallback it names only the
\* typology of the first template.
C15_TemplatesReferenced ==
    sar_pc = "returned" =>
        sar.audit_data.rag_templates_used = TypologiesRetrieved

\* ------------------------------------------------------------------------
\* Behaviour of calculate_risk_score
\* ------------------------------------------------------------------------
\* For every typology, in the order of TYPOLOGY_PATTERNS, the number of its
\* keywords that occur in the text.
TypologyHits(txt) ==
    LET text_lower == Lower(txt)
    IN  [i \in 1..Len(TYPOLOGY_PATTERNS) |->
            Cardinality(HitsIn(TYPOLOGY_PATTERNS[i].keywords, text_lower))]

\* The largest entry of a sequence of counts.
Largest(counts) ==
    CHOOSE n \in {counts[i] : i \in DOMAIN counts} :
        \A i \in DOMAIN counts : counts[i] <= n

\* C17: with H high-risk, M medium-risk and L low-risk keywords occurring
\* in the text (each keyword counted once, case ignored), the returned
\* score is max(30, min(100, max(0, 8*H + 4*M - 2*L))).
C17_ScoreFormula ==
    pc = "returned" =>
        LET H == Cardinality(HighRiskHits(transactions))
            M == Cardinality(MediumRiskHits(transactions))
            L == Cardinality(LowRiskHits(transactions))
        IN  score = Max(30, Min(100, Max(0, 8 * H + 4 * M - 2 * L)))

\* A text in which a high-risk keyword occurs twice, with medium-risk
\* keywords as well, got a score strictly between the floor and the cap.
C17_Witness ==
    /\ pc = "returned"
    /\ \E k \in HighRiskHits(transactions) :
          LET kw == RISK_KEYWORDS.high_risk[k]
              text_lower == Lower(transactions)
          IN  Cardinality({j \in 1..(Len(text_lower) - Len(kw) + 1) :
                  SubSeq(text_lower, j, j + Len(kw) - 1) = kw}) >= 2
    /\ MediumRiskHits(transactions) # {}
    /\ score > 30
    /\ score < 100
    /\ score = 8 * Cardinality(HighRiskHits(transactions))
                + 4 * Cardinality(MediumRiskHits(transactions))
                - 2 * Cardinality(LowRiskHits(transactions))

\* C18: the returned typology is the one with the largest number of its
\* keywords in the text; among several with that number it is the first in
\* the order of TYPOLOGY_PATTERNS; when no typology keyword occurs it is
\* "General Suspicious Activity".
C18_TypologyByCount ==
    pc = "returned" =>
        LET hits == TypologyHits(transactions)
            best == Largest(hits)
            winners == {i \in DOMAIN hits : hits[i] = best}
        IN  IF best = 0
            THEN matched_typology = "General Suspicious Activity"
            ELSE \E i \in winners :
                    /\ \A j \in winners : i <= j
                    /\ matched_typology = TYPOLOGY_PATTERNS[i].typology

\* A text in which two typologies have the same, largest, number of keywords
\* was classified as the one that comes first.
C18_Witness ==
    /\ pc = "returned"
    /\ LET hits == TypologyHits(transactions)
       IN  /\ Largest(hits) > 0
           /\ \E i, j \in DOMAIN hits :
                 /\ i < j
                 /\ hits[i] = Largest(hits)
                 /\ hits[j] = Largest(hits)
                 /\ matched_typology = TYPOLOGY_PATTERNS[i].typology

\* C19: a text with no high- or medium-risk keyword (empty, keyword-free or
\* with low-risk keywords only) gets exactly 30, and a text with no typology
\* keyword gets the generic typology.
C19_UnconditionalFloor ==
    pc = "returned" =>
        /\ (HighRiskHits(transactions) = {} /\ MediumRiskHits(transactions) = {})
                => score = 30
        /\ Largest(TypologyHits(transactions)) = 0
                => matched_typology = "General Suspicious Activity"

\* A text with low-risk keywords only was scored 30 with the generic typology.
C19_Witness ==
    /\ pc = "returned"
    /\ HighRiskHits(transactions) = {}
    /\ MediumRiskHits(transactions) = {}
    /\ LowRiskHits(transactions) # {}
    /\ score = 30
    /\ matched_typology = "General Suspicious Activity"

\* The step says that the generation backend produced the narrative.
StatesLiveGeneration(step) == Contains("LLM generated narrative", step)

\* The exceptions the generation backend and its client can raise.
BackendErrors == ClientErrors \cup InvokeErrors

\* C20: processing_steps of a returned call is the fixed list, which ends
\* with the step that the narrative was stored with the audit trail, when
\* the backend answered; when it failed, it is the same list followed by
\* exactly one note that says the backend was unavailable and names the
\* error, and no step says that the backend generated the narrative.
C20_ProcessingSteps ==
    sar_pc = "returned" =>
        LET steps == JsonLoads(result.audit_data).processing_steps
            n == Len(PROCESSING_STEPS)
        IN  IF ~BackendFailed
            THEN /\ steps = PROCESSING_STEPS
                 /\ Contains("Narrative stored with full audit trail", steps[Len(steps)])
            ELSE /\ Len(steps) = n + 1
                 /\ SubSeq(steps, 1, n) = PROCESSING_STEPS
                 /\ Contains("LLM unavailable", steps[n + 1])
                 /\ \E e \in BackendErrors :
                        e.msg # "" /\ Contains(e.msg, steps[n + 1])
                 /\ \A k \in 1..Len(steps) : ~StatesLiveGeneration(steps[k])

\* ------------------------------------------------------------------------
\* Step 4 of generate_sar calls the backend once.
\* ------------------------------------------------------------------------

\* C21: within one generate_sar call chain.invoke is called at most once;
\* after an invocation that raised (a timeout or any other error) the call
\* is past Step 4, the backend is not invoked again, and the narrative is the
\* one generate_fallback_sar computes from the arguments of the call alone.
C21_SingleInvocation ==
    /\ trace.invocations <= 1
    /\ trace.backend = "failed" =>
          /\ trace.invocations = 1
          /\ sar_pc \in {"return", "returned", "raised"}
          /\ sar_pc \in {"return", "returned"} =>
                sar.narrative =
                    generate_fallback_sar(sar.customer_name, sar.account_number,
                                          sar.transactions, sar.typology,
                                          sar.risk_score)

\* A call returned after its one invocation timed out.
C21_Witness ==
    /\ sar_pc = "returned"
    /\ trace.backend = "failed"
    /\ trace.invocations = 1
    /\ \E e \in InvokeErrors :
          /\ e.type = "ReadTimeout"
          /\ sar.audit_data.processing_steps[Len(sar.audit_data.processing_steps)]
                = FallbackNote(e)

\* ------------------------------------------------------------------------
\* POST /approve-sar and POST /reject-sar (backend/main.py) with get_case,
\* approve_case and get_audit_trail (backend/database.py). The handlers are
\* async functions without an await, served by one uvicorn process: a
\* handler runs to its end before the next request is taken.
\* ------------------------------------------------------------------------
\* The largest number of case rows and of audit rows the tables hold.
MaxCases == 2

MaxAudit == 4

\* The case ids reviewers send: ids of stored cases and ids no case has yet.
CaseIds == {1, 2}

\* ApprovalInput bodies: an edited narrative for every id, and for the
\* first id also an empty one sent by a second analyst.
Approvals ==
    [case_id : CaseIds, analyst_name : {"Meera"},
     edited_narrative : {"Final narrative."}]
    \cup {[case_id |-> 1, analyst_name |-> "Arjun", edited_narrative |-> ""]}

\* RejectInput bodies.
Rejections ==
    [case_id : CaseIds, analyst_name : {"Meera"},
     reason : {"Typology is wrong."}]

\* get_case: SELECT * FROM cases WHERE id=:id; the row found, or none.
get_case(rows, case_id) == SelectSeq(rows, LAMBDA r : r.id = case_id)

\* An UPDATE that also stores the edited text as the generated narrative.
approve_case_overwrites(rows, case_id, analyst, edited_text) ==
    [i \in 1..Len(rows) |->
        IF rows[i].id = case_id
        THEN [rows[i] EXCEPT !.status = "APPROVED", !.approved_by = analyst,
                             !.approved_at = TIMESTAMP,
                             !.edited_narrative = edited_text,
                             !.sar_narrative = edited_text]
        ELSE rows[i]]

\* approve_case: UPDATE cases SET status='APPROVED', approved_by,
\* approved_at, edited_narrative WHERE id=:id; the table after the update.
approve_case(rows, case_id, analyst, edited_text) ==
    [i \in 1..Len(rows) |->
        IF rows[i].id = case_id
        THEN [rows[i] EXCEPT !.status = "APPROVED", !.approved_by = analyst,
                             !.approved_at = TIMESTAMP,
                             !.edited_narrative = edited_text]
        ELSE rows[i]]

\* get_audit_trail: the entries of the case in the order of their
\* timestamps, which is the order of their insertion.
get_audit_trail(log, case_id) == SelectSeq(log, LAMBDA r : r.case_id = case_id)

\* json.dumps({"original_narrative_length": ..., "final_narrative_length":
\* ..., "edits_made": ...}) of approve_sar_endpoint.
ApprovalData(case, approval) ==
    "{\"original_narrative_length\": " \o ToString(Len(case.sar_narrative))
    \o ", \"final_narrative_length\": "
    \o ToString(Len(approval.edited_narrative))
    \o ", \"edits_made\": "
    \o (IF approval.edited_narrative # case.sar_narrative THEN "true"
        ELSE "false")
    \o "}"

\* raise HTTPException(status_code=404, detail="Case not found")
CaseNotFound ==
    [status_code |-> 404, detail |-> "Case not found", success |-> FALSE]

\* except Exception as e: raise HTTPException(status_code=500, detail=str(e))
ReviewFailed(e) == [status_code |-> 500, detail |-> e.msg, success |-> FALSE]

\* The success answer of approve-sar and reject-sar.
ReviewAnswer(case_id, status, message) ==
    [status_code |-> 200, detail |-> "", success |-> TRUE,
     case_id |-> case_id, status |-> status, message |-> message]

\* A handler that does not look the case up before it writes.
ApproveSarUnchecked(approval) ==
    /\ ep_pc \in {"idle", "responded"}
    /\ Len(audit_log) < MaxAudit
    /\ cases' = approve_case(cases, approval.case_id,
                             approval.analyst_name, approval.edited_narrative)
    /\ audit_log' = save_audit(audit_log, approval.case_id, "SAR_APPROVED",
            approval.analyst_name,
            "Analyst reviewed and approved SAR for filing.", "{}")
    /\ response' = ReviewAnswer(approval.case_id, "APPROVED",
            "SAR approved and ready for regulatory filing.")
    /\ ep_pc' = "responded"
    /\ UNCHANGED <<request, classifier_vars, generator_vars, callers>>

\* approve_sar_endpoint: 404 when get_case finds no row; otherwise
\* approve_case, save_audit(case_id, "SAR_APPROVED", ...) and the answer.
ApproveSarEndpoint(approval) ==
    /\ ep_pc \in {"idle", "responded"}
    /\ Len(audit_log) < MaxAudit
    /\ LET case == get_case(cases, approval.case_id)
       IN  IF case = <<>>
           THEN /\ cases' = cases
                /\ audit_log' = audit_log
                /\ response' = CaseNotFound
           ELSE /\ cases' = approve_case(cases, approval.case_id,
                                approval.analyst_name,
                                approval.edited_narrative)
                /\ audit_log' = save_audit(audit_log, approval.case_id,
                        "SAR_APPROVED", approval.analyst_name,
                        "Analyst reviewed and approved SAR for filing.",
                        ApprovalData(case[1], approval))
                /\ response' = ReviewAnswer(approval.case_id, "APPROVED",
                        "SAR approved and ready for regulatory filing.")
    /\ ep_pc' = "responded"
    /\ UNCHANGED <<request, classifier_vars, generator_vars, callers>>

\* approve_sar_endpoint when a database call raises e: get_case or
\* approve_case (at = "approve_case": nothing is written), or save_audit
\* after approve_case has committed its update (at = "save_audit"); the
\* caller gets 500.
ApproveSarRaises(approval, e, at) ==
    /\ ep_pc \in {"idle", "responded"}
    /\ at \in {"approve_case", "save_audit"}
    /\ at = "save_audit" => get_case(cases, approval.case_id) # <<>>
    /\ cases' = IF at = "save_audit"
                THEN approve_case(cases, approval.case_id,
                                  approval.analyst_name,
                                  approval.edited_narrative)
                ELSE cases
    /\ audit_log' = audit_log
    /\ response' = ReviewFailed(e)
    /\ ep_pc' = "responded"
    /\ UNCHANGED <<request, classifier_vars, generator_vars, callers>>

\* reject_sar_endpoint: save_audit(case_id, "SAR_REJECTED", ...) with the
\* default data_used, and the answer.
RejectSarEndpoint(reject) ==
    /\ ep_pc \in {"idle", "responded"}
    /\ Len(audit_log) < MaxAudit
    /\ audit_log' = save_audit(audit_log, reject.case_id, "SAR_REJECTED",
            reject.analyst_name, "SAR rejected. Reason: " \o reject.reason, "")
    /\ cases' = cases
    /\ response' = ReviewAnswer(reject.case_id, "REJECTED",
            "SAR sent back for revision.")
    /\ ep_pc' = "responded"
    /\ UNCHANGED <<request, classifier_vars, generator_vars, callers>>

\* reject_sar_endpoint when save_audit raises e.
RejectSarRaises(reject, e) ==
    /\ ep_pc \in {"idle", "responded"}
    /\ response' = ReviewFailed(e)
    /\ ep_pc' = "responded"
    /\ UNCHANGED <<cases, audit_log>>
    /\ UNCHANGED <<request, classifier_vars, generator_vars, callers>>

\* The CaseInput bodies analysts send while cases are reviewed.
ReviewBodies ==
    { [customer_name |-> "Rajesh Kumar", account_number |-> "ACC-1001",
       transactions |-> "9 cash deposits of 49,000 each, below threshold.",
       analyst_name |-> "Priya"],
      [customer_name |-> "ACME Exports Ltd", account_number |-> "ACC-0007",
       transactions |-> "wire to offshore shell company",
       analyst_name |-> "Priya"] }

\* The customers are filed in turn: a case for the first customer when the
\* table holds an even number of cases, for the second otherwise.
FiledNext(body) ==
    (body.customer_name = "Rajesh Kumar") <=> (Len(cases) % Cardinality(ReviewBodies) = 0)

\* What generate_sar returns for a body: the completion of the backend, or
\* the fallback narrative with its note when chain.invoke raised e.
GenerateSarReturns(body, out) ==
    LET txt == FullTransactionText(body)
        r == calculate_risk_score(txt, body.customer_name)
        audit == AuditData(r[1], r[2], txt)
    IN  [returned |-> TRUE,
         narrative |-> out,
         risk_score |-> r[1],
         typology |-> r[2],
         audit_data |-> JsonDumps(audit)]

GenerateSarFallsBack(body, e) ==
    LET txt == FullTransactionText(body)
        r == calculate_risk_score(txt, body.customer_name)
        audit == AuditData(r[1], r[2], txt)
    IN  [returned |-> TRUE,
         narrative |-> generate_fallback_sar(body.customer_name,
                            body.account_number, txt, r[2], r[1]),
         risk_score |-> r[1],
         typology |-> r[2],
         audit_data |-> JsonDumps([audit EXCEPT !.processing_steps =
                                        Append(@, FallbackNote(e))])]

\* The results of generate_sar tried for each body: a completion for the
\* first customer, the fallback narrative for the second.
ReviewResults ==
    [body \in ReviewBodies |->
        IF body.customer_name = "Rajesh Kumar"
        THEN { GenerateSarReturns(body,
                  "The account shows structuring of cash deposits.") }
        ELSE { GenerateSarFallsBack(body,
                  [type |-> "ConnectionError", msg |-> "Connection refused"]) }]

\* POST /generate-sar with body: generate_sar has returned res and the
\* handler is about to call save_case.
GenerateSarReturned(body, res) ==
    /\ ep_pc \in {"idle", "responded"}
    /\ Len(cases) < MaxCases
    /\ Len(audit_log) < MaxAudit
    /\ FiledNext(body)
    /\ res \in ReviewResults[body]
    /\ request' = body
    /\ result' = res
    /\ sar_pc' = "returned"
    /\ ep_pc' = "call"
    /\ response' = NoResponse
    /\ UNCHANGED <<cases, audit_log, sar, collection, raised, trace>>
    /\ UNCHANGED <<classifier_vars, callers>>

\* ------------------------------------------------------------------------
\* Specification SpecReview: generate-sar, approve-sar and reject-sar
\* requests in any order on tables that start empty
\* ------------------------------------------------------------------------
InitReview ==
    /\ ClassifierIdle
    /\ GeneratorIdle
    /\ BackendIdle
    /\ CallersIdle

NextReview ==
    \/ \E body \in ReviewBodies :
            \E res \in ReviewResults[body] : GenerateSarReturned(body, res)
    \/ SaveCase
    \/ \E e \in DbErrors : SaveCaseRaises(e)
    \/ SaveAudit
    \/ \E e \in DbErrors : SaveAuditRaises(e)
    \/ \E approval \in Approvals : ApproveSarEndpoint(approval)
    \/ \E approval \in Approvals, e \in DbErrors,
          at \in {"approve_case", "save_audit"} :
            ApproveSarRaises(approval, e, at)
    \/ \E reject \in Rejections : RejectSarEndpoint(reject)
    \/ \E reject \in Rejections, e \in DbErrors : RejectSarRaises(reject, e)

SpecReview == InitReview /\ [][NextReview]_vars

\* A request is being handled: the handler has not answered yet.
InHandler == ep_pc \in {"received", "call", "saved"}

\* ------------------------------------------------------------------------
\* Properties of the case store and the audit log
\* ------------------------------------------------------------------------
\* The case table holds a row with this id.
CaseExists(case_id) == get_case(cases, case_id) # <<>>

\* The last row of a table.
Last(rows) == rows[Len(rows)]

\* This step inserted an audit entry with this action.
Appended(action) ==
    /\ Len(audit_log') = Len(audit_log) + 1
    /\ Last(audit_log').action = action

\* C22: an approve-sar request for a case id no row has is answered with
\* 404 "Case not found", and the step changes neither the case table nor
\* the audit log.
C22_MissingCaseNotFound ==
    [][\A approval \in Approvals :
          (ApproveSarEndpoint(approval) /\ ~CaseExists(approval.case_id))
            => /\ response' = CaseNotFound
               /\ cases' = cases
               /\ audit_log' = audit_log]_vars

\* A case is stored and an approval for another id was answered with 404.
C22_Witness ==
    /\ response = CaseNotFound
    /\ Len(cases) = 1
    /\ Len(audit_log) = 1
    /\ cases[1].status = "DRAFT"

\* C23: after a successful approve-sar or reject-sar for a stored case, the
\* status in the answer is the status the case row holds.
C23_ReportedStatusStored ==
    (response.success /\ "status" \in DOMAIN response
        /\ CaseExists(response.case_id))
      => get_case(cases, response.case_id)[1].status = response.status

\* C24: no step removes or changes an audit entry: the log before the step
\* is a prefix of the log after it, so every entry keeps its case_id,
\* action, analyst, detail and data_used and no case loses an entry.
C24_AuditAppendOnly ==
    [][/\ Len(audit_log') >= Len(audit_log)
       /\ \A i \in 1..Len(audit_log) : audit_log'[i] = audit_log[i]
       /\ \A case_id \in 1..MaxCases :
            Len(get_audit_trail(audit_log', case_id))
                >= Len(get_audit_trail(audit_log, case_id))]_vars

\* A case was generated, approved and rejected: its trail holds the three
\* entries.
C24_Witness ==
    \E case_id \in CaseIds :
        LET trail == get_audit_trail(audit_log, case_id)
        IN  /\ Len(trail) = 3
            /\ {trail[i].action : i \in 1..3}
                  = {"SAR_GENERATED", "SAR_APPROVED", "SAR_REJECTED"}

\* C25: once the handler of generate-sar has answered, every case row has
\* a SAR_GENERATED audit entry.
C25_CaseHasGenerationAudit ==
    ~InHandler =>
        \A i \in 1..Len(cases) :
            \E j \in 1..Len(audit_log) :
                /\ audit_log[j].case_id = cases[i].id
                /\ audit_log[j].action = "SAR_GENERATED"

\* C26: every audit entry has the id of a stored case.
C26_AuditRefersToCase ==
    \A j \in 1..Len(audit_log) : CaseExists(audit_log[j].case_id)

\* C27: the trail of a case that holds a SAR_GENERATED entry starts with it.
C27_GeneratedFirst ==
    \A i \in 1..Len(cases) :
        LET trail == get_audit_trail(audit_log, cases[i].id)
        IN  (\E k \in 1..Len(trail) : trail[k].action = "SAR_GENERATED")
                => trail[1].action = "SAR_GENERATED"

\* The columns save_case writes and no later statement may change.
GeneratedColumns ==
    {"id", "customer_name", "account_number", "transactions",
     "sar_narrative", "analyst_name", "risk_score", "typology"}

\* C28: no step removes a case row or changes a generated column of a
\* stored row; a step changes at most one stored row, the row of the case
\* whose approval it logs, and there only status, approved_by, approved_at
\* and edited_narrative; a step that logs a rejection changes no row.
C28_GeneratedColumnsKept ==
    [][/\ Len(cases') >= Len(cases)
       /\ \A i \in 1..Len(cases) :
            /\ DOMAIN cases'[i] = DOMAIN cases[i]
            /\ \A f \in GeneratedColumns : cases'[i][f] = cases[i][f]
            /\ cases'[i] # cases[i] =>
                 /\ \A k \in 1..Len(cases) :
                        cases'[k] # cases[k] => k = i
                 /\ Appended("SAR_APPROVED") =>
                        Last(audit_log').case_id = cases[i].id
       /\ Appended("SAR_REJECTED") => cases' = cases]_vars

\* Two cases are stored; the first was approved twice, last by the second
\* analyst with an empty edited narrative, the second is still a draft.
C28_Witness ==
    /\ Len(cases) = 2
    /\ cases[1].status = "APPROVED"
    /\ cases[1].approved_by = "Arjun"
    /\ cases[1].edited_narrative = ""
    /\ cases[1].sar_narrative # ""
    /\ cases[2].status = "DRAFT"
    /\ cases[2].approved_by = NULL
    /\ LET trail == get_audit_trail(audit_log, 1)
       IN  /\ Len(trail) = 3
           /\ trail[2].action = "SAR_APPROVED" /\ trail[2].analyst = "Meera"
           /\ trail[3].action = "SAR_APPROVED" /\ trail[3].analyst = "Arjun"

\* ------------------------------------------------------------------------
\* The collection a query runs against
\* ------------------------------------------------------------------------

\* C29: whenever a caller's collection.query is answered, the collection
\* holds every template of SAR_TEMPLATES exactly once.
C29_QueriesFullCollection ==
    [][\A p \in DOMAIN callers :
          (callers[p].pc = "query" /\ callers'[p].pc = "done")
            => EachTemplateOnce]_vars

\* ------------------------------------------------------------------------
\* Specification SpecMonotone: calculate_risk_score on a text and then on
\* the same text with one risk keyword appended
\* ------------------------------------------------------------------------
\* Every keyword of RISK_KEYWORDS.
AllRiskKeywords ==
    {RISK_KEYWORDS.high_risk[k] : k \in 1..Len(RISK_KEYWORDS.high_risk)}
    \cup {RISK_KEYWORDS.medium_risk[k] : k \in 1..Len(RISK_KEYWORDS.medium_risk)}
    \cup {RISK_KEYWORDS.low_risk[k] : k \in 1..Len(RISK_KEYWORDS.low_risk)}

InitMonotone ==
    /\ pc = "init"
    /\ transactions = ""
    /\ customer_name \in CustomerNames
    /\ score = 0
    /\ matched_typology = ""
    /\ probe \in Probes
    /\ probe_result = NoResult
    /\ phase = 0
    /\ GeneratorIdle
    /\ BackendIdle
    /\ CallersIdle

NextMonotone ==
    \/ (pc = "init" /\ phase = 0 /\ CallClassifier(probe, customer_name))
    \/ \E kw \in AllRiskKeywords :
          /\ pc = "returned"
          /\ phase = 1
          /\ CallClassifier(probe \o " " \o kw, customer_name)
    \/ ReturnClassifier

SpecMonotone == InitMonotone /\ [][NextMonotone]_vars

\* The set more holds exactly one element beyond those of fewer.
OneMore(fewer, more) ==
    /\ fewer \subseteq more
    /\ Cardinality(more \ fewer) = 1

\* C30: when the second text matches the keywords of the first and one
\* more high- or medium-risk keyword, its score is not lower than the score
\* of the first; when it matches one more low-risk keyword instead, its
\* score is not higher.
C30_Monotone ==
    (pc = "returned" /\ phase = 2 /\ probe_result.seen) =>
        LET first == Lower(probe)
            second == Lower(transactions)
            h1 == HitsIn(RISK_KEYWORDS.high_risk, first)
            h2 == HitsIn(RISK_KEYWORDS.high_risk, second)
            m1 == HitsIn(RISK_KEYWORDS.medium_risk, first)
            m2 == HitsIn(RISK_KEYWORDS.medium_risk, second)
            l1 == HitsIn(RISK_KEYWORDS.low_risk, first)
            l2 == HitsIn(RISK_KEYWORDS.low_risk, second)
        IN  /\ ( \/ (OneMore(h1, h2) /\ m1 = m2 /\ l1 = l2)
                 \/ (h1 = h2 /\ OneMore(m1, m2) /\ l1 = l2) )
                    => score >= probe_result.risk_score
            /\ (h1 = h2 /\ m1 = m2 /\ OneMore(l1, l2))
                    => score <= probe_result.risk_score

\* A text with high- and medium-risk keywords was scored above the floor,
\* and the same text with one more low-risk keyword was scored 2 lower.
C30_Witness ==
    /\ pc = "returned"
    /\ phase = 2
    /\ probe_result.seen
    /\ HighRiskHits(probe) = HighRiskHits(transactions)
    /\ HighRiskHits(probe) # {}
    /\ MediumRiskHits(probe) = MediumRiskHits(transactions)
    /\ OneMore(LowRiskHits(probe), LowRiskHits(transactions))
    /\ score = probe_result.risk_score - 2

====
